---- MODULE Spec2Model ----
(***************************************************************************)
(* Model of the GitHub PR statistics pipeline of lib/: the HTTP client     *)
(* (_make_request), the pagination loop (_get_all_pages), the per-user     *)
(* fetch (fetch_merged_prs), the aggregation (calculate_statistics) and    *)
(* the orchestrator (PRAnalyzer.analyze).                                  *)
(*                                                                         *)
(* Strings the code inspects or builds are sequences of tokens (f-string   *)
(* pieces, characters of a response text), so that formatting, lowering    *)
(* and substring search are computed, not assumed.  avg_lines_per_pr is a  *)
(* number with one decimal place and is held as an integer count of tenths.*)
(***************************************************************************)
EXTENDS Integers, Sequences, FiniteSets, TLC

VARIABLES
    input,          \* what the caller of the core was given: the JSON of a POST, a config.yaml
    cli,            \* the state of pr_stats.py: its main, its GitHubClient, its output
    client,         \* the GitHubClient: token, the headers of its session, base_url
    entry,          \* the function under call: "analyze", "_get_all_pages", "calculate_statistics";
                    \* "analyze_scenario", "analyze_long", "analyze_filters", "analyze_records":
                    \* analyze against the remote of that specification;
                    \* "web": the endpoint of app.py, "cli": main of pr_stats.py,
                    \* "both": analyze, then main of pr_stats.py on the same answers,
                    \* "cli_get_all_pages": _get_all_pages of pr_stats.py
    pc,             \* position of the single thread of control
    users,          \* analyze(users=...)
    filters,        \* repository / start_date / end_date, each None (<<>>) or <<value>>
    ui,             \* index of the user the for-loop of analyze is at
    url,            \* _get_all_pages: url
    params,         \* _get_all_pages: params, None (<<>>) or <<the dict>>
    page,           \* _get_all_pages: page
    response,       \* _get_all_pages: response, None (<<>>) before the first return of _make_request
    results,        \* _get_all_pages: results
    prs,            \* fetch_merged_prs: prs
    di,             \* index of the pr the for-loop of fetch_merged_prs is at
    pr_data_list,   \* fetch_merged_prs: pr_data_list
    all_pr_data,    \* analyze: all_pr_data (calculate_statistics: its argument)
    requests,       \* every session.get issued so far, in order
    responses,      \* what the remote answered to each of them, in order
    ret,            \* <<>> or <<the value the entry function returned>>
    exc,            \* <<>> or <<the exception the entry function raised>>
    statsCalls      \* number of invocations of calculate_statistics

vars == <<input, cli, client, entry, pc, users, filters, ui, url, params, page, response, results, prs, di, pr_data_list,
          all_pr_data, requests, responses, ret, exc, statsCalls>>

----------------------------------------------------------------------------
(* Bounds of the model *)

MaxRequests == 5      \* requests issued in one run
MaxUsers == 2         \* length of the users list
MaxShortPage == 2     \* items of a page that is neither empty, 40 long nor full
MaxRecords == 4       \* records handed to calculate_statistics directly
MaxLongRequests == 102 \* requests issued in one run of a fetch that meets a full page

(* Program constants *)

per_page == 100

----------------------------------------------------------------------------
(* Generic helpers *)

None == <<>>
Some(v) == <<v>>

RECURSIVE SumSeq(_)
SumSeq(s) ==
    IF s = <<>> THEN 0
    ELSE IF Len(s) = 1 THEN s[1]
    ELSE LET half == Len(s) \div 2
         IN  SumSeq(SubSeq(s, 1, half)) + SumSeq(SubSeq(s, half + 1, Len(s)))

\* dict.get(key, default)
Get(d, key, default) == IF key \in DOMAIN d THEN d[key] ELSE default

----------------------------------------------------------------------------
(* Decoded JSON bodies: a tagged value, as json() yields dict, list, None or a scalar *)

JDict(m) == [type |-> "dict", map |-> m]
JList(xs) == [type |-> "list", items |-> xs]
JNull == [type |-> "null"]
JNumber(n) == [type |-> "number", n |-> n]

EmptyMap == [k \in {} |-> 0]

\* Python truthiness of a decoded body: `not response`
Falsy(j) ==
    \/ j.type = "null"
    \/ j.type = "dict" /\ DOMAIN j.map = {}
    \/ j.type = "list" /\ j.items = <<>>
    \/ j.type = "number" /\ j.n = 0

----------------------------------------------------------------------------
(* Response texts, as sequences of characters *)

\* str.lower() on the characters that occur in the texts of the model
LowerChar(c) ==
    CASE c = "R" -> "r" [] c = "A" -> "a" [] c = "T" -> "t" [] c = "E" -> "e"
      [] c = "L" -> "l" [] c = "I" -> "i" [] c = "M" -> "m" [] c = "X" -> "x"
      [] OTHER -> c

Lower(text) == [i \in 1..Len(text) |-> LowerChar(text[i])]

\* `pat in text`
Contains(text, pat) ==
    \E i \in 0..(Len(text) - Len(pat)) : SubSeq(text, i + 1, i + Len(pat)) = pat

RateLimitPattern == <<"r", "a", "t", "e", " ", "l", "i", "m", "i", "t">>

Texts == {
    <<"R", "a", "t", "e", " ", "L", "i", "m", "i", "t", " ", "E", "x">>,
    <<"X", "R", "A", "T", "E", " ", "L", "I", "M", "I", "T">>,
    <<"r", "a", "t", "e", "l", "i", "m", "i", "t">>,
    <<"r", "a", "t", "e", " ", "l", "i", "m", "i">>,
    <<"d", "e", "n", "i", "e", "d">>,
    <<>> }

----------------------------------------------------------------------------
(* What session.get can produce: an HTTP response, or a RequestException *)

HttpResponse(status, text, json) ==
    [kind |-> "http", status |-> status, text |-> text, json |-> json, cause |-> <<>>]

TransportFailure(cause) ==
    [kind |-> "transport", status |-> 0, text |-> <<>>, json |-> None, cause |-> <<cause>>]

ErrorStatuses == {401, 403, 500, 204}
TransportCauses == {"ConnectionError", "Timeout"}

\* texts of the non-403 statuses: one that mentions the rate limit, one that does not
PlainTexts == {<<"R", "a", "t", "e", " ", "L", "i", "m", "i", "t", " ", "E", "x">>,
               <<"d", "e", "n", "i", "e", "d">>}

ErrorResponses ==
    {HttpResponse(403, t, None) : t \in Texts}
        \cup {HttpResponse(s, t, None) : s \in ErrorStatuses \ {403}, t \in PlainTexts}
        \cup {TransportFailure(c) : c \in TransportCauses}

\* a 200 whose body json() cannot decode
UndecodableResponse == HttpResponse(200, <<"d", "e", "n", "i", "e", "d">>, None)

OkResponse(json) == HttpResponse(200, <<>>, Some(json))

----------------------------------------------------------------------------
(* GitHubClient._make_request *)

GitHubAPIError(fmt, args) == [class |-> "GitHubAPIError", fmt |-> fmt, args |-> args]

Return(v) == [raised |-> FALSE, value |-> Some(v), error |-> None]
Raise(e) == [raised |-> TRUE, value |-> None, error |-> Some(e)]

\* response.json(): the decoded body, or the JSONDecodeError of the installed
\* requests, which is a RequestException from requests 2.27 on and a plain
\* ValueError before; the source pins no version.
ResponseJson(resp) ==
    IF resp.json # None
    THEN {Return(resp.json[1])}
    ELSE {Raise(GitHubAPIError("Network error: {}", <<<<"JSONDecodeError">>>>)),
          Raise([class |-> "ValueError", fmt |-> "{}", args |-> <<<<"JSONDecodeError">>>>])}

\* as _make_request, the rate-limit text searched for without lowering the body
_make_request_case_sensitive(resp) ==
    IF resp.kind = "transport"
    THEN {Raise(GitHubAPIError("Network error: {}", <<resp.cause>>))}
    ELSE IF resp.status = 401
    THEN {Raise(GitHubAPIError("Invalid GitHub token. Check your configuration.", <<>>))}
    ELSE IF resp.status = 403
    THEN IF Contains(resp.text, RateLimitPattern)
         THEN {Raise(GitHubAPIError("GitHub API rate limit exceeded. Try again later.", <<>>))}
         ELSE {Raise(GitHubAPIError("GitHub API forbidden: {}", <<resp.text>>))}
    ELSE IF resp.status # 200
    THEN {Raise(GitHubAPIError("GitHub API error ({}): {}", <<<<resp.status>>, resp.text>>))}
    ELSE ResponseJson(resp)

\* the set of outcomes of one call, given what session.get produced
_make_request(resp) ==
    IF resp.kind = "transport"
    THEN {Raise(GitHubAPIError("Network error: {}", <<resp.cause>>))}
    ELSE IF resp.status = 401
    THEN {Raise(GitHubAPIError("Invalid GitHub token. Check your configuration.", <<>>))}
    ELSE IF resp.status = 403
    THEN IF Contains(Lower(resp.text), RateLimitPattern)
         THEN {Raise(GitHubAPIError("GitHub API rate limit exceeded. Try again later.", <<>>))}
         ELSE {Raise(GitHubAPIError("GitHub API forbidden: {}", <<resp.text>>))}
    ELSE IF resp.status # 200
    THEN {Raise(GitHubAPIError("GitHub API error ({}): {}", <<<<resp.status>>, resp.text>>))}
    ELSE ResponseJson(resp)

----------------------------------------------------------------------------
(* The remote: search summary items, search pages, PR details *)

base_url == "https://api.github.com"

ItemA == [number |-> 1, title |-> "Fix bug", html_url |-> "https://github.com/o/r1/pull/1",
          repository_url |-> <<"https://api.github.com/", "repos/", "o/r1">>]
ItemB == [number |-> 2, title |-> "Add feature", html_url |-> "https://github.com/o/r2/pull/2",
          repository_url |-> <<"https://api.github.com/", "repos/", "o/r2">>]
SummaryItems == {ItemA, ItemB}

\* a page of n items: a, b, a, b, ...
PageOf(n, a, b) == [i \in 1..n |-> IF i % 2 = 1 THEN a ELSE b]

\* short pages of every content, and longer ones around the page size
ShortPages == {PageOf(n, a, b) : n \in 0..MaxShortPage, a \in SummaryItems, b \in SummaryItems}
LongPages == {PageOf(n, ItemA, ItemB) : n \in {40, per_page - 1, per_page, per_page + 1}}
Pages == ShortPages \cup LongPages

SearchBodies ==
    {JDict("items" :> xs) : xs \in Pages}
        \cup {JList(PageOf(n, ItemB, ItemA)) : n \in {0, 1, per_page}}
        \cup {JDict("message" :> "Validation Failed"), JDict(EmptyMap), JNull, JNumber(1)}

SearchResponses == {OkResponse(j) : j \in SearchBodies} \cup {UndecodableResponse} \cup ErrorResponses

\* one failure of each kind, for the runs that go on to the details and the other users
BriefErrorResponses ==
    {HttpResponse(401, <<"d", "e", "n", "i", "e", "d">>, None),
     HttpResponse(403, <<"X", "R", "A", "T", "E", " ", "L", "I", "M", "I", "T">>, None),
     HttpResponse(403, <<"d", "e", "n", "i", "e", "d">>, None),
     HttpResponse(500, <<"d", "e", "n", "i", "e", "d">>, None),
     TransportFailure("Timeout"),
     UndecodableResponse}

BriefSearchBodies ==
    {JDict("items" :> xs) : xs \in ShortPages \cup {PageOf(per_page, ItemA, ItemB)}}
        \cup {JList(PageOf(1, ItemB, ItemA)), JNull}

BriefSearchResponses == {OkResponse(j) : j \in BriefSearchBodies} \cup BriefErrorResponses

\* the end-to-end scenario: any short page, or a refusal
ScenarioSearchResponses ==
    {OkResponse(JDict("items" :> xs)) : xs \in ShortPages}
        \cup {HttpResponse(401, <<"d", "e", "n", "i", "e", "d">>, None)}

\* a long fetch: the remote holds 0, 1, 100 or 101 matching PRs, so that the first
\* page may be full and the second is not; or it refuses
LongSearchResponses ==
    {OkResponse(JDict("items" :> PageOf(n, ItemA, ItemB))) :
        n \in IF page = 1 THEN {0, 1, per_page} ELSE {0, 1}}
        \cup {HttpResponse(500, <<"d", "e", "n", "i", "e", "d">>, None)}

\* what the remote may answer to a search request of a call of `e`
SearchAnswers(e) ==
    CASE e = "_get_all_pages" -> SearchResponses
      [] e \in {"analyze_scenario", "analyze_filters", "analyze_records", "web", "cli", "both"} ->
            ScenarioSearchResponses
      [] e = "cli_get_all_pages" -> SearchResponses
      [] e = "analyze_long" -> LongSearchResponses
      [] OTHER -> BriefSearchResponses

DetailMaps == {
    ("additions" :> 10) @@ ("deletions" :> 5) @@ ("merged_at" :> "2024-01-02T10:00:00Z"),
    ("additions" :> 7),
    ("deletions" :> 4) @@ ("merged_at" :> "2024-01-05T10:00:00Z") }

DetailBodies == {JDict(m) : m \in DetailMaps} \cup {JNull}

DetailResponses == {OkResponse(j) : j \in DetailBodies} \cup BriefErrorResponses

\* the details of the end-to-end scenario: (additions, deletions) of (10, 5), (3, 2), (100, 0)
ScenarioDetailMaps == {
    ("additions" :> 10) @@ ("deletions" :> 5) @@ ("merged_at" :> "2024-01-02T10:00:00Z"),
    ("additions" :> 3) @@ ("deletions" :> 2) @@ ("merged_at" :> "2024-01-03T10:00:00Z"),
    ("additions" :> 100) @@ ("deletions" :> 0) @@ ("merged_at" :> "2024-01-04T10:00:00Z") }

ScenarioDetailResponses ==
    {OkResponse(JDict(m)) : m \in ScenarioDetailMaps}
        \cup {HttpResponse(401, <<"d", "e", "n", "i", "e", "d">>, None)}

LongDetailResponses ==
    {OkResponse(JDict(("additions" :> 3) @@ ("deletions" :> 2)
                          @@ ("merged_at" :> "2024-01-03T10:00:00Z"))),
     HttpResponse(500, <<"d", "e", "n", "i", "e", "d">>, None)}

\* JSON null as json() decodes it into a field: Python's None, which is neither a
\* timestamp nor the empty string
Null == "null"

\* details as the pulls endpoint gives them, among them a PR whose merged_at is null
\* and whose own author is not the user searched for
RecordDetailMaps ==
    DetailMaps \cup {
        ("additions" :> 1) @@ ("deletions" :> 2) @@ ("merged_at" :> Null) @@ ("user" :> "carol"),
        ("additions" :> 6) @@ ("deletions" :> 0) @@ ("merged_at" :> "2024-01-06T10:00:00Z")
            @@ ("user" :> "carol") }

RecordDetailResponses ==
    {OkResponse(JDict(m)) : m \in RecordDetailMaps}
        \cup {HttpResponse(401, <<"d", "e", "n", "i", "e", "d">>, None)}

\* what the remote may answer to a detail request of a call of `e`
DetailAnswers(e) ==
    CASE e \in {"analyze_scenario", "analyze_filters", "web", "cli"} -> ScenarioDetailResponses
      [] e = "both" -> RecordDetailResponses \cup {OkResponse(JNull)}
      [] e = "analyze_records" -> RecordDetailResponses
      [] e = "analyze_long" -> LongDetailResponses
      [] OTHER -> DetailResponses

\* the number of requests a call of `e` is followed for
RequestCap(e) == IF e = "analyze_long" THEN MaxLongRequests ELSE MaxRequests

----------------------------------------------------------------------------
(* The callers of the core: what they are given *)

\* no caller: the core is called directly
NoInput == [kind |-> "none"]

\* pr_stats.py is not running
CliIdle == [pc |-> "idle"]

\* str.strip() on the strings a caller is given for a token, a username or a date
\* (WebInputs, ConfigInputs): those with white space at an end lose it
Strip(text) ==
    CASE text = " " -> ""
      [] text = " ghp_a" -> "ghp_a"
      [] text = " alice " -> "alice"
      [] OTHER -> text

\* whether datetime.strptime(text, '%Y-%m-%d') returns, on the same strings: %m and
\* %d take one digit as well as two
ParsesAsDate(text) == text \in {"2024-01-01", "2024-1-5"}

\* `x or None` for a string x
OrNone(text) == IF text = "" THEN None ELSE Some(text)

----------------------------------------------------------------------------
(* Requests, as session.get receives them *)

\* GitHubClient.__init__, lines 29-36
NewGitHubClient(token) ==
    [token |-> token,
     headers |-> ("Authorization" :> <<"token ", token>>)
                    @@ ("Accept" :> "application/vnd.github.v3+json"),
     base_url |-> base_url]

\* as Request, the headers of the session left out
RequestWithoutSessionHeaders(u, p) == [url |-> u, params |-> p, headers |-> EmptyMap]

\* session.get(url, params=params): the session's headers go with every request
Request(u, p) == [url |-> u, params |-> p, headers |-> client.headers]

----------------------------------------------------------------------------
(* GitHubClient._get_all_pages *)

\* as Propagate, the error caught and what was fetched so far returned as the result
PropagateAsPartialResult(e) ==
    /\ pc' = "done"
    /\ ret' = Some([summary |-> <<>>, prs |-> all_pr_data, total_prs |-> Len(all_pr_data)])
    /\ UNCHANGED <<exc, statsCalls>>

\* as Propagate, the loop left by `break` and the items of the earlier pages returned
PropagateAsPartialPages(e) ==
    /\ pc' = "done"
    /\ ret' = Some(results)
    /\ UNCHANGED <<exc, statsCalls>>

\* as Propagate, the exception swallowed and the same request sent again
PropagateRetry(e) ==
    /\ UNCHANGED <<pc, exc, ret, statsCalls>>

\* an exception leaves the entry function: nothing is returned
Propagate(e) ==
    /\ pc' = "raised"
    /\ exc' = Some(e)
    /\ UNCHANGED <<ret, statsCalls>>

\* as GetAllPagesCall, the page counter starting at 0
GetAllPagesCallFromZero ==
    /\ pc = "call_get_all_pages"
    /\ results' = <<>>
    /\ params' = Some(("per_page" :> per_page) @@ (IF params = None THEN EmptyMap ELSE params[1]))
    /\ page' = 0
    /\ pc' = "get_all_pages"
    /\ UNCHANGED <<input, cli, client, entry, users, filters, ui, url, response, prs, di, pr_data_list,
                   all_pr_data, requests, responses, ret, exc, statsCalls>>

\* lines 58-61: results = [], params = params or {}, per_page, page = 1
GetAllPagesCall ==
    /\ pc = "call_get_all_pages"
    /\ results' = <<>>
    /\ params' = Some(("per_page" :> per_page) @@ (IF params = None THEN EmptyMap ELSE params[1]))
    /\ page' = 1
    /\ pc' = "get_all_pages"
    /\ UNCHANGED <<input, cli, client, entry, users, filters, ui, url, response, prs, di, pr_data_list,
                   all_pr_data, requests, responses, ret, exc, statsCalls>>

\* as GetAllPagesReturn, fetch_merged_prs keeping the first of equal summary items only
GetAllPagesReturnDeduplicated(res) ==
    IF entry = "_get_all_pages"
    THEN /\ pc' = "done"
         /\ ret' = Some(res)
         /\ UNCHANGED <<prs, di, pr_data_list>>
    ELSE LET firsts == {i \in 1..Len(res) : \A j \in 1..(i - 1) : res[j] # res[i]}
         IN  /\ pc' = "fetch_details"
             /\ prs' = [k \in 1..Cardinality(firsts) |->
                           res[CHOOSE i \in firsts : Cardinality({j \in firsts : j <= i}) = k]]
             /\ pr_data_list' = <<>>
             /\ di' = 1
             /\ UNCHANGED ret

\* `return results`, to the caller of _get_all_pages
GetAllPagesReturn(res) ==
    IF entry = "_get_all_pages"
    THEN /\ pc' = "done"
         /\ ret' = Some(res)
         /\ UNCHANGED <<prs, di, pr_data_list>>
    ELSE /\ pc' = "fetch_details"
         /\ prs' = res
         /\ pr_data_list' = <<>>
         /\ di' = 1
         /\ UNCHANGED ret

\* as PageItems, a page that is a bare list contributing nothing
PageItemsOfDictOnly(body) ==
    IF body.type = "dict" /\ "items" \in DOMAIN body.map THEN body.map["items"]
    ELSE <<>>

\* the contribution of a decoded body, <<>> when its shape is not recognised
PageItems(body) ==
    IF body.type = "dict" /\ "items" \in DOMAIN body.map THEN body.map["items"]
    ELSE IF body.type = "list" THEN body.items
    ELSE <<>>

\* as PageBreaks, the loop going on until a page comes back empty
PageBreaksOnEmpty(body) ==
    IF Falsy(body) THEN TRUE
    ELSE IF body.type = "dict" /\ "items" \in DOMAIN body.map
    THEN Len(body.map["items"]) = 0
    ELSE IF body.type = "list" THEN Len(body.items) = 0
    ELSE TRUE

\* as PageBreaks, a full page taken for the last one
PageBreaksInclusive(body) ==
    IF Falsy(body) THEN TRUE
    ELSE IF body.type = "dict" /\ "items" \in DOMAIN body.map
    THEN Len(body.map["items"]) <= 100
    ELSE IF body.type = "list" THEN Len(body.items) <= 100
    ELSE TRUE

\* as PageBreaks, a truthy body of no recognised shape skipped and the next page asked for
PageBreaksSkipsUnrecognised(body) ==
    IF Falsy(body) THEN TRUE
    ELSE IF body.type = "dict" /\ "items" \in DOMAIN body.map
    THEN Len(body.map["items"]) < 100
    ELSE IF body.type = "list" THEN Len(body.items) < 100
    ELSE FALSE

\* as PageBreaks, a page of more than 100 items ending the loop as well
PageBreaksOnOverfull(body) ==
    IF Falsy(body) THEN TRUE
    ELSE IF body.type = "dict" /\ "items" \in DOMAIN body.map
    THEN Len(body.map["items"]) # 100
    ELSE IF body.type = "list" THEN Len(body.items) # 100
    ELSE TRUE

\* whether the loop breaks after this body
PageBreaks(body) ==
    IF Falsy(body) THEN TRUE
    ELSE IF body.type = "dict" /\ "items" \in DOMAIN body.map
    THEN Len(body.map["items"]) < 100
    ELSE IF body.type = "list" THEN Len(body.items) < 100
    ELSE TRUE

\* one iteration of `while True`, lines 64-82
GetAllPagesStep ==
    /\ pc = "get_all_pages"
    /\ Len(requests) < RequestCap(entry)
    /\ \E resp \in SearchAnswers(entry) : \E out \in _make_request(resp) :
         LET sent == ("page" :> page) @@ params[1] IN
         /\ params' = Some(sent)
         /\ requests' = Append(requests, Request(url, Some(sent)))
         /\ responses' = Append(responses, resp)
         /\ IF out.raised
            THEN /\ Propagate(out.error[1])
                 /\ UNCHANGED <<page, response, results, prs, di, pr_data_list>>
            ELSE LET body == out.value[1]
                     res == IF Falsy(body) THEN results ELSE results \o PageItems(body)
                 IN  /\ response' = Some(body)
                     /\ results' = res
                     /\ UNCHANGED <<exc, statsCalls>>
                     /\ IF PageBreaks(body)
                        THEN /\ GetAllPagesReturn(res)
                             /\ UNCHANGED page
                        ELSE /\ page' = page + 1
                             /\ UNCHANGED <<pc, ret, prs, di, pr_data_list>>
    /\ UNCHANGED <<input, cli, client, entry, users, filters, ui, url, all_pr_data>>

----------------------------------------------------------------------------
(* GitHubClient.fetch_merged_prs *)

\* Python truthiness of an Optional[str]: None and '' are falsy
Truthy(opt) == opt # None /\ opt[1] # ""

\* sep.join(parts), on token sequences
RECURSIVE Join(_, _)
Join(parts, sep) ==
    IF parts = <<>> THEN <<>>
    ELSE IF Len(parts) = 1 THEN parts[1]
    ELSE parts[1] \o <<sep>> \o Join(Tail(parts), sep)

\* as BuildQuery, every clause emitted, with an empty value for an absent filter
BuildQueryWithEmptyClauses(user, repository, start_date, end_date) ==
    LET query_parts ==
            << <<"author:", user>>, <<"is:pr">>, <<"is:merged">> >>
            \o << <<"repo:", IF Truthy(repository) THEN repository[1] ELSE "">> >>
            \o << <<"merged:>=", IF Truthy(start_date) THEN start_date[1] ELSE "">> >>
            \o << <<"merged:<=", IF Truthy(end_date) THEN end_date[1] ELSE "">> >>
    IN  Join(query_parts, " ")

\* lines 95-106
BuildQuery(user, repository, start_date, end_date) ==
    LET query_parts ==
            << <<"author:", user>>, <<"is:pr">>, <<"is:merged">> >>
            \o (IF Truthy(repository) THEN << <<"repo:", repository[1]>> >> ELSE <<>>)
            \o (IF Truthy(start_date) THEN << <<"merged:>=", start_date[1]>> >> ELSE <<>>)
            \o (IF Truthy(end_date) THEN << <<"merged:<=", end_date[1]>> >> ELSE <<>>)
    IN  Join(query_parts, " ")

SearchUrl == <<client.base_url, "/search/issues">>

SearchParams(user, f) ==
    ("q" :> BuildQuery(user, f.repository, f.start_date, f.end_date))
        @@ ("sort" :> "updated") @@ ("order" :> "desc")

\* text.split(sep)[-1]: what follows the last occurrence of sep, the whole text if none
SplitLast(text, sep) ==
    LET at == {i \in 1..Len(text) : text[i] = sep}
        last == IF at = {} THEN 0 ELSE CHOOSE i \in at : \A j \in at : j <= i
    IN  SubSeq(text, last + 1, Len(text))

\* line 118
PrUrl(pr) ==
    <<client.base_url, "/repos/">> \o SplitLast(pr.repository_url, "repos/") \o <<"/pulls/", pr.number>>

\* as PRData, total_lines taken from the additions alone
PRDataLinesAdded(pr, user, pr_details) ==
    [number |-> pr.number,
     title |-> pr.title,
     author |-> user,
     merged_at |-> Get(pr_details, "merged_at", ""),
     additions |-> Get(pr_details, "additions", 0),
     deletions |-> Get(pr_details, "deletions", 0),
     total_lines |-> Get(pr_details, "additions", 0),
     url |-> pr.html_url]

\* lines 122-131
PRData(pr, user, pr_details) ==
    [number |-> pr.number,
     title |-> pr.title,
     author |-> user,
     merged_at |-> Get(pr_details, "merged_at", ""),
     additions |-> Get(pr_details, "additions", 0),
     deletions |-> Get(pr_details, "deletions", 0),
     total_lines |-> Get(pr_details, "additions", 0) + Get(pr_details, "deletions", 0),
     url |-> pr.html_url]

\* analyze lines 29-37 entering fetch_merged_prs lines 95-112: the next user's search
FetchMergedPrsCall ==
    /\ pc = "analyze_loop"
    /\ ui <= Len(users)
    /\ url' = SearchUrl
    /\ params' = Some(SearchParams(users[ui], filters))
    /\ pc' = "call_get_all_pages"
    /\ UNCHANGED <<input, cli, client, entry, users, filters, ui, page, response, results, prs, di, pr_data_list,
                   all_pr_data, requests, responses, ret, exc, statsCalls>>

\* one iteration of `for pr in prs`, lines 116-132
FetchDetail ==
    /\ pc = "fetch_details"
    /\ di <= Len(prs)
    /\ Len(requests) < RequestCap(entry)
    /\ \E resp \in DetailAnswers(entry) : \E out \in _make_request(resp) :
         /\ requests' = Append(requests, Request(PrUrl(prs[di]), None))
         /\ responses' = Append(responses, resp)
         /\ IF out.raised
            THEN /\ Propagate(out.error[1])
                 /\ UNCHANGED <<di, pr_data_list>>
            ELSE LET pr_details == out.value[1] IN
                 IF pr_details.type # "dict"
                 THEN \* pr_details.get on a body that is no mapping
                      /\ Propagate([class |-> "AttributeError", fmt |-> "no attribute {}",
                                    args |-> <<<<"get">>>>])
                      /\ UNCHANGED <<di, pr_data_list>>
                 ELSE /\ pr_data_list' =
                            Append(pr_data_list, PRData(prs[di], users[ui], pr_details.map))
                      /\ di' = di + 1
                      /\ UNCHANGED <<pc, ret, exc, statsCalls>>
    /\ UNCHANGED <<input, cli, client, entry, users, filters, ui, url, params, page, response, results, prs,
                   all_pr_data>>

\* as FetchMergedPrsReturn, the loop over prs left before its last item
FetchMergedPrsReturnEarly ==
    /\ pc = "fetch_details"
    /\ di >= Len(prs)
    /\ all_pr_data' = all_pr_data \o pr_data_list
    /\ ui' = ui + 1
    /\ pc' = "analyze_loop"
    /\ UNCHANGED <<input, cli, client, entry, users, filters, url, params, page, response, results, prs, di,
                   pr_data_list, requests, responses, ret, exc, statsCalls>>

\* as FetchMergedPrsReturn, the user's records put in front of the earlier users'
FetchMergedPrsReturnPrepends ==
    /\ pc = "fetch_details"
    /\ di > Len(prs)
    /\ all_pr_data' = pr_data_list \o all_pr_data
    /\ ui' = ui + 1
    /\ pc' = "analyze_loop"
    /\ UNCHANGED <<input, cli, client, entry, users, filters, url, params, page, response, results, prs, di,
                   pr_data_list, requests, responses, ret, exc, statsCalls>>

\* as FetchMergedPrsReturn, records equal to one analyze already holds left out
FetchMergedPrsReturnSkipsKnown ==
    /\ pc = "fetch_details"
    /\ di > Len(prs)
    /\ all_pr_data' = all_pr_data \o
            SelectSeq(pr_data_list, LAMBDA r : \A k \in 1..Len(all_pr_data) : all_pr_data[k] # r)
    /\ ui' = ui + 1
    /\ pc' = "analyze_loop"
    /\ UNCHANGED <<input, cli, client, entry, users, filters, url, params, page, response, results, prs, di,
                   pr_data_list, requests, responses, ret, exc, statsCalls>>

\* `return pr_data_list` (line 137) and analyze's all_pr_data.extend(pr_data) (line 39)
FetchMergedPrsReturn ==
    /\ pc = "fetch_details"
    /\ di > Len(prs)
    /\ all_pr_data' = all_pr_data \o pr_data_list
    /\ ui' = ui + 1
    /\ pc' = "analyze_loop"
    /\ UNCHANGED <<input, cli, client, entry, users, filters, url, params, page, response, results, prs, di,
                   pr_data_list, requests, responses, ret, exc, statsCalls>>

----------------------------------------------------------------------------
(* calculate_statistics *)

\* as GroupKeys, a key opened for every record
GroupKeysOfEveryRecord(records, seen) == [i \in 1..Len(records) |-> records[i].author]

\* the keys of user_prs in insertion order: each author at its first record
RECURSIVE GroupKeys(_, _)
GroupKeys(records, seen) ==
    IF records = <<>> THEN <<>>
    ELSE IF Len(records) = 1
    THEN IF records[1].author \in seen THEN <<>> ELSE <<records[1].author>>
    ELSE LET half == Len(records) \div 2
             front == GroupKeys(SubSeq(records, 1, half), seen)
         IN  front \o GroupKeys(SubSeq(records, half + 1, Len(records)),
                                seen \cup {front[i] : i \in 1..Len(front)})

\* user_prs[user]
GroupOf(records, user) == SelectSeq(records, LAMBDA pr : pr.author = user)

\* as Round1, the digits after the first decimal cut off
Round1Truncated(num, den) == (10 * num) \div den

\* round(num / den, 1) in tenths, for num >= 0 and den > 0: to the nearest tenth, a
\* tie going to the even one (num / den is then a multiple of 1/4 and exact as a
\* float for every den below 20)
Round1(num, den) ==
    LET q == (10 * num) \div den
        r == (10 * num) % den
    IN  IF 2 * r < den THEN q
        ELSE IF 2 * r > den THEN q + 1
        ELSE IF q % 2 = 0 THEN q ELSE q + 1

\* as UserStats, the lines summed over additions
UserStatsOfAdditions(user, group) ==
    LET total_prs == Len(group)
        total_lines == SumSeq([i \in 1..Len(group) |-> group[i].additions])
    IN  [user |-> user,
         total_prs |-> total_prs,
         avg_lines_per_pr |-> IF total_prs > 0 THEN Round1(total_lines, total_prs) ELSE 0,
         total_lines |-> total_lines]

\* lines 24-36: the row of one user
UserStats(user, group) ==
    LET total_prs == Len(group)
        total_lines == SumSeq([i \in 1..Len(group) |-> group[i].total_lines])
    IN  [user |-> user,
         total_prs |-> total_prs,
         avg_lines_per_pr |-> IF total_prs > 0 THEN Round1(total_lines, total_prs) ELSE 0,
         total_lines |-> total_lines]

\* as InsertDesc, x going in front of the elements of equal total_prs
RECURSIVE InsertDescInFront(_, _)
InsertDescInFront(sorted, x) ==
    IF sorted = <<>> THEN <<x>>
    ELSE IF Head(sorted).total_prs > x.total_prs
    THEN <<Head(sorted)>> \o InsertDescInFront(Tail(sorted), x)
    ELSE <<x>> \o sorted

\* insert x behind every element whose total_prs is not smaller: keeps equal keys in order
RECURSIVE InsertDesc(_, _)
InsertDesc(sorted, x) ==
    IF sorted = <<>> THEN <<x>>
    ELSE IF Head(sorted).total_prs >= x.total_prs
    THEN <<Head(sorted)>> \o InsertDesc(Tail(sorted), x)
    ELSE <<x>> \o sorted

\* insert x behind every element whose total_prs is not larger
RECURSIVE InsertAsc(_, _)
InsertAsc(sorted, x) ==
    IF sorted = <<>> THEN <<x>>
    ELSE IF Head(sorted).total_prs <= x.total_prs
    THEN <<Head(sorted)>> \o InsertAsc(Tail(sorted), x)
    ELSE <<x>> \o sorted

\* as SortByTotalPrsDesc, without reverse=True
RECURSIVE SortByTotalPrsAsc(_)
SortByTotalPrsAsc(stats) ==
    IF stats = <<>> THEN <<>>
    ELSE InsertAsc(SortByTotalPrsAsc(SubSeq(stats, 1, Len(stats) - 1)), stats[Len(stats)])

\* stats.sort(key=total_prs, reverse=True): a stable sort
RECURSIVE SortByTotalPrsDesc(_)
SortByTotalPrsDesc(stats) ==
    IF stats = <<>> THEN <<>>
    ELSE InsertDesc(SortByTotalPrsDesc(SubSeq(stats, 1, Len(stats) - 1)), stats[Len(stats)])

calculate_statistics(pr_data_list_) ==
    LET keys == GroupKeys(pr_data_list_, {})
        stats == [i \in 1..Len(keys) |-> UserStats(keys[i], GroupOf(pr_data_list_, keys[i]))]
    IN  SortByTotalPrsDesc(stats)

\* the call of calculate_statistics on its own
CalculateStatisticsCall ==
    /\ pc = "call_calculate_statistics"
    /\ ret' = Some(calculate_statistics(all_pr_data))
    /\ statsCalls' = statsCalls + 1
    /\ pc' = "done"
    /\ UNCHANGED <<input, cli, client, entry, users, filters, ui, url, params, page, response, results, prs, di,
                   pr_data_list, all_pr_data, requests, responses, exc>>

----------------------------------------------------------------------------
(* PRAnalyzer.analyze *)

\* dataclasses.asdict: the same fields under the same names
AsDict(obj) == [f \in DOMAIN obj |-> obj[f]]

AsDicts(objs) == [i \in 1..Len(objs) |-> AsDict(objs[i])]

\* as AnalyzeReturn, the summary holding a row for every user asked for
AnalyzeReturnRowPerUser ==
    /\ pc = "analyze_loop"
    /\ ui > Len(users)
    /\ IF all_pr_data = <<>>
       THEN /\ ret' = Some([summary |-> <<>>, prs |-> <<>>, total_prs |-> 0])
            /\ UNCHANGED statsCalls
       ELSE /\ ret' = Some([summary |-> AsDicts([i \in 1..Len(users) |->
                                            UserStats(users[i], GroupOf(all_pr_data, users[i]))]),
                            prs |-> AsDicts(all_pr_data),
                            total_prs |-> Len(all_pr_data)])
            /\ statsCalls' = statsCalls + 1
    /\ pc' = "done"
    /\ UNCHANGED <<input, cli, client, entry, users, filters, ui, url, params, page, response, results, prs, di,
                   pr_data_list, all_pr_data, requests, responses, exc>>

\* as AnalyzeReturn, without the early return for an empty all_pr_data
AnalyzeReturnAlwaysAggregates ==
    /\ pc = "analyze_loop"
    /\ ui > Len(users)
    /\ ret' = Some([summary |-> AsDicts(calculate_statistics(all_pr_data)),
                    prs |-> AsDicts(all_pr_data),
                    total_prs |-> Len(all_pr_data)])
    /\ statsCalls' = statsCalls + 1
    /\ pc' = "done"
    /\ UNCHANGED <<input, cli, client, entry, users, filters, ui, url, params, page, response, results, prs, di,
                   pr_data_list, all_pr_data, requests, responses, exc>>

\* as AnalyzeReturn, total_prs counting the rows of the summary
AnalyzeReturnCountsRows ==
    /\ pc = "analyze_loop"
    /\ ui > Len(users)
    /\ IF all_pr_data = <<>>
       THEN /\ ret' = Some([summary |-> <<>>, prs |-> <<>>, total_prs |-> 0])
            /\ UNCHANGED statsCalls
       ELSE /\ ret' = Some([summary |-> AsDicts(calculate_statistics(all_pr_data)),
                            prs |-> AsDicts(all_pr_data),
                            total_prs |-> Len(calculate_statistics(all_pr_data))])
            /\ statsCalls' = statsCalls + 1
    /\ pc' = "done"
    /\ UNCHANGED <<input, cli, client, entry, users, filters, ui, url, params, page, response, results, prs, di,
                   pr_data_list, all_pr_data, requests, responses, exc>>

\* lines 41-54, after the loop over the users
AnalyzeReturn ==
    /\ pc = "analyze_loop"
    /\ ui > Len(users)
    /\ IF all_pr_data = <<>>
       THEN /\ ret' = Some([summary |-> <<>>, prs |-> <<>>, total_prs |-> 0])
            /\ UNCHANGED statsCalls
       ELSE /\ ret' = Some([summary |-> AsDicts(calculate_statistics(all_pr_data)),
                            prs |-> AsDicts(all_pr_data),
                            total_prs |-> Len(all_pr_data)])
            /\ statsCalls' = statsCalls + 1
    /\ pc' = "done"
    /\ UNCHANGED <<input, cli, client, entry, users, filters, ui, url, params, page, response, results, prs, di,
                   pr_data_list, all_pr_data, requests, responses, exc>>

----------------------------------------------------------------------------
(* app.py: the endpoint /api/analyze *)

\* [u.strip() for u in users if u.strip()]
StripUsers(raw) ==
    LET kept == SelectSeq(raw, LAMBDA u : Strip(u) # "")
    IN  [i \in 1..Len(kept) |-> Strip(kept[i])]

\* jsonify(...), status
WebResponse(status, body) == [status |-> status, json |-> body]

\* lines 25-46: the checks of the request, up to the call of analyzer.analyze
WebAnalyze ==
    /\ entry = "web" /\ pc = "web_request"
    /\ LET data == input.data
           reject(msg) ==
               /\ ret' = Some(WebResponse(400, [error |-> msg]))
               /\ pc' = "responded"
               /\ UNCHANGED <<client, users, filters>>
       IN  IF data = None
           THEN reject("No data provided")
           ELSE IF Strip(data[1].token) = ""
           THEN reject("GitHub token is required")
           ELSE IF data[1].users = <<>>
           THEN reject("Users list is required")
           ELSE IF StripUsers(data[1].users) = <<>>
           THEN reject("At least one valid username is required")
           ELSE /\ client' = NewGitHubClient(Strip(data[1].token))
                /\ users' = StripUsers(data[1].users)
                /\ filters' = [repository |-> OrNone(Strip(data[1].repository)),
                               start_date |-> OrNone(Strip(data[1].start_date)),
                               end_date |-> OrNone(Strip(data[1].end_date))]
                /\ pc' = "analyze_loop"
                /\ UNCHANGED ret
    /\ UNCHANGED <<input, cli, entry, ui, url, params, page, response, results, prs, di,
                   pr_data_list, all_pr_data, requests, responses, exc, statsCalls>>

\* lines 57-69: the result as JSON with 200, a GitHubAPIError as 400, any other
\* exception as 500
WebRespond ==
    /\ entry = "web" /\ pc \in {"done", "raised"}
    /\ ret' = IF pc = "done" THEN Some(WebResponse(200, ret[1]))
              ELSE IF exc[1].class = "GitHubAPIError"
              THEN Some(WebResponse(400, [error |-> "GitHub API error", details |-> exc[1]]))
              ELSE Some(WebResponse(500, [error |-> "Internal server error", details |-> exc[1]]))
    /\ exc' = None
    /\ pc' = "responded"
    /\ UNCHANGED <<input, cli, client, entry, users, filters, ui, url, params, page, response,
                   results, prs, di, pr_data_list, all_pr_data, requests, responses, statsCalls>>

----------------------------------------------------------------------------
(* pr_stats.py: its GitHubClient *)

\* GitHubClient.__init__ of pr_stats.py, lines 141-148
CliNewGitHubClient(token) ==
    [token |-> token,
     headers |-> ("Authorization" :> <<"token ", token>>)
                    @@ ("Accept" :> "application/vnd.github.v3+json"),
     base_url |-> "https://api.github.com"]

\* the state of a running pr_stats.py at the given position
CliAt(position) ==
    [pc |-> position, client |-> None, ui |-> 1, url |-> <<>>, params |-> None, page |-> 1,
     results |-> <<>>, prs |-> <<>>, di |-> 1, pr_data_list |-> <<>>, all_pr_data |-> <<>>,
     requests |-> <<>>, ret |-> None, exc |-> None, fetched |-> None, output |-> None]

\* _make_request of pr_stats.py, lines 150-166
Cli_make_request(resp) ==
    IF resp.kind = "transport"
    THEN {Raise(GitHubAPIError("Network error: {}", <<resp.cause>>))}
    ELSE IF resp.status = 401
    THEN {Raise(GitHubAPIError("Invalid GitHub token. Check your configuration.", <<>>))}
    ELSE IF resp.status = 403
    THEN IF Contains(Lower(resp.text), RateLimitPattern)
         THEN {Raise(GitHubAPIError("GitHub API rate limit exceeded. Try again later.", <<>>))}
         ELSE {Raise(GitHubAPIError("GitHub API forbidden: {}", <<resp.text>>))}
    ELSE IF resp.status # 200
    THEN {Raise(GitHubAPIError("GitHub API error ({}): {}", <<<<resp.status>>, resp.text>>))}
    ELSE ResponseJson(resp)

\* session.get of pr_stats.py
CliRequest(u, p) == [url |-> u, params |-> p, headers |-> cli.client[1].headers]

\* what answers the k-th request of pr_stats.py: the answer on record, if the run of
\* analyze before it has made a k-th request, else any answer of the remote
CliAnswers(k, answers) == IF k <= Len(responses) THEN {responses[k]} ELSE answers

CliRecorded(k, resp) == IF k <= Len(responses) THEN responses ELSE Append(responses, resp)

\* an exception leaves main: GitHubAPIError through its handler (lines 369-371), any
\* other uncaught; either way the process ends with the exception and no output
CliPropagate(state, e) == [state EXCEPT !.pc = "raised", !.exc = Some(e)]

\* lines 178-194: whether the loop breaks after this body
CliPageBreaks(body) ==
    IF Falsy(body) THEN TRUE
    ELSE IF body.type = "dict" /\ "items" \in DOMAIN body.map
    THEN Len(body.map["items"]) < 100
    ELSE IF body.type = "list" THEN Len(body.items) < 100
    ELSE TRUE

\* lines 181-188: what the body adds to results
CliPageItems(body) ==
    IF body.type = "dict" /\ "items" \in DOMAIN body.map THEN body.map["items"]
    ELSE IF body.type = "list" THEN body.items
    ELSE <<>>

\* lines 170-173
CliGetAllPagesCall ==
    /\ cli.pc = "call_get_all_pages"
    /\ cli' = [cli EXCEPT
            !.results = <<>>,
            !.params = Some(("per_page" :> 100) @@ (IF cli.params = None THEN EmptyMap ELSE cli.params[1])),
            !.page = 1,
            !.pc = "get_all_pages"]
    /\ UNCHANGED <<input, client, entry, pc, users, filters, ui, url, params, page, response,
                   results, prs, di, pr_data_list, all_pr_data, requests, responses, ret, exc,
                   statsCalls>>

\* one iteration of `while True`, lines 175-194, and `return results`, line 196
CliGetAllPagesStep ==
    /\ cli.pc = "get_all_pages"
    /\ Len(cli.requests) < RequestCap(entry)
    /\ LET k == Len(cli.requests) + 1
           sent == ("page" :> cli.page) @@ cli.params[1]
       IN  \E resp \in CliAnswers(k, SearchAnswers(entry)) : \E out \in Cli_make_request(resp) :
             LET asked == [cli EXCEPT !.params = Some(sent),
                                      !.requests = Append(cli.requests, CliRequest(cli.url, Some(sent)))]
             IN  /\ responses' = CliRecorded(k, resp)
                 /\ IF out.raised
                    THEN cli' = CliPropagate(asked, out.error[1])
                    ELSE LET body == out.value[1]
                             res == IF Falsy(body) THEN cli.results
                                    ELSE cli.results \o CliPageItems(body)
                         IN  IF CliPageBreaks(body)
                             THEN IF entry = "cli_get_all_pages"
                                  THEN cli' = [asked EXCEPT !.results = res, !.pc = "done",
                                                            !.ret = Some(res)]
                                  ELSE cli' = [asked EXCEPT !.results = res, !.pc = "fetch_details",
                                                            !.prs = res, !.pr_data_list = <<>>,
                                                            !.di = 1]
                             ELSE cli' = [asked EXCEPT !.results = res, !.page = cli.page + 1]
    /\ UNCHANGED <<input, client, entry, pc, users, filters, ui, url, params, page, response,
                   results, prs, di, pr_data_list, all_pr_data, requests, ret, exc, statsCalls>>

\* lines 206-217
CliBuildQuery(user, repository, start_date, end_date) ==
    LET query_parts ==
            << <<"author:", user>>, <<"is:pr">>, <<"is:merged">> >>
            \o (IF Truthy(repository) THEN << <<"repo:", repository[1]>> >> ELSE <<>>)
            \o (IF Truthy(start_date) THEN << <<"merged:>=", start_date[1]>> >> ELSE <<>>)
            \o (IF Truthy(end_date) THEN << <<"merged:<=", end_date[1]>> >> ELSE <<>>)
    IN  Join(query_parts, " ")

\* line 228
CliPrUrl(pr) ==
    <<cli.client[1].base_url, "/repos/">> \o SplitLast(pr.repository_url, "repos/")
        \o <<"/pulls/", pr.number>>

\* lines 231-240
CliPRData(pr, user, pr_details) ==
    [number |-> pr.number,
     title |-> pr.title,
     author |-> user,
     merged_at |-> Get(pr_details, "merged_at", ""),
     additions |-> Get(pr_details, "additions", 0),
     deletions |-> Get(pr_details, "deletions", 0),
     total_lines |-> Get(pr_details, "additions", 0) + Get(pr_details, "deletions", 0),
     url |-> pr.html_url]

\* main lines 344-351 entering fetch_merged_prs lines 206-221: the next user's search
CliFetchMergedPrsCall ==
    /\ cli.pc = "main_loop"
    /\ cli.ui <= Len(input.users)
    /\ cli' = [cli EXCEPT
            !.url = <<cli.client[1].base_url, "/search/issues">>,
            !.params = Some(("q" :> CliBuildQuery(input.users[cli.ui], input.repository,
                                                   input.start, input.end))
                               @@ ("sort" :> "updated") @@ ("order" :> "desc")),
            !.pc = "call_get_all_pages"]
    /\ UNCHANGED <<input, client, entry, pc, users, filters, ui, url, params, page, response,
                   results, prs, di, pr_data_list, all_pr_data, requests, responses, ret, exc,
                   statsCalls>>

\* one iteration of `for pr in prs`, lines 224-241
CliFetchDetail ==
    /\ cli.pc = "fetch_details"
    /\ cli.di <= Len(cli.prs)
    /\ Len(cli.requests) < RequestCap(entry)
    /\ LET k == Len(cli.requests) + 1
           asked == [cli EXCEPT !.requests =
                        Append(cli.requests, CliRequest(CliPrUrl(cli.prs[cli.di]), None))]
       IN  \E resp \in CliAnswers(k, DetailAnswers(entry)) : \E out \in Cli_make_request(resp) :
             /\ responses' = CliRecorded(k, resp)
             /\ IF out.raised
                THEN cli' = CliPropagate(asked, out.error[1])
                ELSE LET pr_details == out.value[1] IN
                     IF pr_details.type # "dict"
                     THEN \* pr_details.get on a body that is no mapping
                          cli' = CliPropagate(asked, [class |-> "AttributeError",
                                                      fmt |-> "no attribute {}",
                                                      args |-> <<<<"get">>>>])
                     ELSE cli' = [asked EXCEPT
                              !.pr_data_list = Append(cli.pr_data_list,
                                  CliPRData(cli.prs[cli.di], input.users[cli.ui], pr_details.map)),
                              !.di = cli.di + 1]
    /\ UNCHANGED <<input, client, entry, pc, users, filters, ui, url, params, page, response,
                   results, prs, di, pr_data_list, all_pr_data, requests, ret, exc, statsCalls>>

\* `return pr_data_list` (line 244) and main's all_pr_data.extend(pr_data) (line 352)
CliFetchMergedPrsReturn ==
    /\ cli.pc = "fetch_details"
    /\ cli.di > Len(cli.prs)
    /\ cli' = [cli EXCEPT !.all_pr_data = cli.all_pr_data \o cli.pr_data_list,
                          !.ui = cli.ui + 1,
                          !.pc = "main_loop"]
    /\ UNCHANGED <<input, client, entry, pc, users, filters, ui, url, params, page, response,
                   results, prs, di, pr_data_list, all_pr_data, requests, responses, ret, exc,
                   statsCalls>>

----------------------------------------------------------------------------
(* pr_stats.py: calculate_statistics, Config and main *)

\* lines 265-274: the row of one user
CliUserStats(user, group) ==
    LET total_prs == Len(group)
        total_lines == SumSeq([i \in 1..Len(group) |-> group[i].total_lines])
    IN  [user |-> user,
         total_prs |-> total_prs,
         avg_lines_per_pr |-> IF total_prs > 0 THEN Round1(total_lines, total_prs) ELSE 0,
         total_lines |-> total_lines]

\* calculate_statistics of pr_stats.py, lines 256-277
Cli_calculate_statistics(pr_data_list_) ==
    LET keys == GroupKeys(pr_data_list_, {})
        stats == [i \in 1..Len(keys) |-> CliUserStats(keys[i], GroupOf(pr_data_list_, keys[i]))]
    IN  SortByTotalPrsDesc(stats)

\* Config._validate, lines 66-94, on a config.yaml that has its github section: the
\* ConfigError it raises, None when it raises none
ConfigValidate(config) ==
    IF config.token = ""
    THEN Some([class |-> "ConfigError", fmt |-> "Missing 'github.token' in config", args |-> <<>>])
    ELSE IF config.users = <<>>
    THEN Some([class |-> "ConfigError", fmt |-> "Missing 'users' list in config", args |-> <<>>])
    ELSE IF Truthy(config.start) /\ ~ParsesAsDate(config.start[1])
    THEN Some([class |-> "ConfigError", fmt |-> "Invalid date format for 'date_range.{}': {}",
               args |-> <<"start", config.start[1]>>])
    ELSE IF Truthy(config.end) /\ ~ParsesAsDate(config.end[1])
    THEN Some([class |-> "ConfigError", fmt |-> "Invalid date format for 'date_range.{}': {}",
               args |-> <<"end", config.end[1]>>])
    ELSE None

\* lines 375-376: pr_stats.py is run once the run of analyze it is compared with
\* has ended, against the remote answers on record
RunPrStats ==
    /\ entry = "both" /\ pc \in {"done", "raised"}
    /\ cli.pc = "idle"
    /\ cli' = CliAt("main")
    /\ UNCHANGED <<input, client, entry, pc, users, filters, ui, url, params, page, response,
                   results, prs, di, pr_data_list, all_pr_data, requests, responses, ret, exc,
                   statsCalls>>

\* main, lines 335-344: Config(), then the client; a ConfigError ends the process
\* (lines 368-370)
CliMain ==
    /\ cli.pc = "main"
    /\ LET error == ConfigValidate(input) IN
       IF error # None
       THEN cli' = CliPropagate(cli, error[1])
       ELSE cli' = [cli EXCEPT !.client = Some(CliNewGitHubClient(input.token)),
                               !.all_pr_data = <<>>,
                               !.ui = 1,
                               !.pc = "main_loop"]
    /\ UNCHANGED <<input, client, entry, pc, users, filters, ui, url, params, page, response,
                   results, prs, di, pr_data_list, all_pr_data, requests, responses, ret, exc,
                   statsCalls>>

\* as CliMainEnd, the total counting the rows of the summary
CliMainEndCountsRows ==
    /\ cli.pc = "main_loop"
    /\ cli.ui > Len(input.users)
    /\ LET counted == [cli EXCEPT !.fetched = Some(Len(cli.all_pr_data)), !.pc = "done"] IN
       IF cli.all_pr_data = <<>>
       THEN cli' = counted
       ELSE LET stats == Cli_calculate_statistics(cli.all_pr_data) IN
            cli' = [counted EXCEPT !.output = Some(
                       [summary |-> AsDicts(stats),
                        total_prs |-> Len(stats),
                        prs |-> AsDicts(cli.all_pr_data)])]
    /\ UNCHANGED <<input, client, entry, pc, users, filters, ui, url, params, page, response,
                   results, prs, di, pr_data_list, all_pr_data, requests, responses, ret, exc,
                   statsCalls>>

\* main, lines 354-367, the output format being json (display_json, lines 311-318):
\* the count of the fetched records is printed, then nothing more for no record, else
\* the summary, its total and the records
CliMainEnd ==
    /\ cli.pc = "main_loop"
    /\ cli.ui > Len(input.users)
    /\ LET counted == [cli EXCEPT !.fetched = Some(Len(cli.all_pr_data)), !.pc = "done"] IN
       IF cli.all_pr_data = <<>>
       THEN cli' = counted
       ELSE LET stats == Cli_calculate_statistics(cli.all_pr_data) IN
            cli' = [counted EXCEPT !.output = Some(
                       [summary |-> AsDicts(stats),
                        total_prs |-> SumSeq([i \in 1..Len(stats) |-> stats[i].total_prs]),
                        prs |-> AsDicts(cli.all_pr_data)])]
    /\ UNCHANGED <<input, client, entry, pc, users, filters, ui, url, params, page, response,
                   results, prs, di, pr_data_list, all_pr_data, requests, responses, ret, exc,
                   statsCalls>>

----------------------------------------------------------------------------
(* Inputs *)

UserNames == {"alice", "bob"}

RECURSIVE SeqsUpTo(_, _)
SeqsUpTo(S, n) ==
    IF n = 0 THEN {<<>>}
    ELSE LET shorter == SeqsUpTo(S, n - 1)
         IN  shorter \cup {Append(s, x) : s \in {t \in shorter : Len(t) = n - 1}, x \in S}

NoFilters == [repository |-> None, start_date |-> None, end_date |-> None]
SomeFilters == [repository |-> Some("o/r1"), start_date |-> None,
                end_date |-> Some("2024-12-31")]

\* the records calculate_statistics is called with directly
StatRecords ==
    {[number |-> 1, title |-> "Fix bug", author |-> a, merged_at |-> "", additions |-> t,
      deletions |-> 1, total_lines |-> t + 1, url |-> "https://github.com/o/r1/pull/1"] :
        a \in UserNames \cup {"carol"}, t \in {0, 1, 2}}

\* analyze(users, repository, start_date, end_date) on a fresh PRAnalyzer
Init ==
    /\ input = NoInput /\ cli = CliIdle
    /\ client = NewGitHubClient("ghp_a")
    /\ entry = "analyze" /\ pc = "analyze_loop"
    /\ users \in SeqsUpTo(UserNames, MaxUsers)
    /\ filters = SomeFilters
    /\ ui = 1
    /\ url = SearchUrl /\ params = None /\ page = 1 /\ response = None /\ results = <<>>
    /\ prs = <<>> /\ di = 1 /\ pr_data_list = <<>> /\ all_pr_data = <<>>
    /\ requests = <<>> /\ responses = <<>> /\ ret = None /\ exc = None /\ statsCalls = 0

Next ==
    \/ FetchMergedPrsCall
    \/ GetAllPagesCall
    \/ GetAllPagesStep
    \/ FetchDetail
    \/ FetchMergedPrsReturn
    \/ AnalyzeReturn

Spec == Init /\ [][Next]_vars

\* credentials a client is constructed with
Tokens == {"ghp_a", "ghp_b"}

\* what a caller can pass for an optional filter: None, '' or a value
FilterChoices(value) == {None, Some(""), Some(value)}

\* analyze of one user under every combination of the three filters
InitFilters ==
    /\ input = NoInput /\ cli = CliIdle
    /\ client = NewGitHubClient("ghp_a")
    /\ entry = "analyze_filters" /\ pc = "analyze_loop"
    /\ users \in {<<u>> : u \in UserNames}
    /\ filters \in [repository : FilterChoices("o/r1"),
                     start_date : FilterChoices("2024-01-01"),
                     end_date : FilterChoices("2024-12-31")]
    /\ ui = 1
    /\ url = SearchUrl /\ params = None /\ page = 1 /\ response = None /\ results = <<>>
    /\ prs = <<>> /\ di = 1 /\ pr_data_list = <<>> /\ all_pr_data = <<>>
    /\ requests = <<>> /\ responses = <<>> /\ ret = None /\ exc = None /\ statsCalls = 0

SpecFilters == InitFilters /\ [][Next]_vars

\* analyze against a remote that answers details of every content
InitRecords ==
    /\ input = NoInput /\ cli = CliIdle
    /\ client \in {NewGitHubClient(t) : t \in Tokens}
    /\ entry = "analyze_records" /\ pc = "analyze_loop"
    /\ users \in {<<u>> : u \in UserNames}
    /\ filters = NoFilters
    /\ ui = 1
    /\ url = SearchUrl /\ params = None /\ page = 1 /\ response = None /\ results = <<>>
    /\ prs = <<>> /\ di = 1 /\ pr_data_list = <<>> /\ all_pr_data = <<>>
    /\ requests = <<>> /\ responses = <<>> /\ ret = None /\ exc = None /\ statsCalls = 0

SpecRecords == InitRecords /\ [][Next]_vars

\* the initial values of the variables of the core, before any call of it
CoreIdle ==
    /\ users = <<>> /\ filters = NoFilters /\ ui = 1
    /\ url = <<>> /\ params = None /\ page = 1 /\ response = None /\ results = <<>>
    /\ prs = <<>> /\ di = 1 /\ pr_data_list = <<>> /\ all_pr_data = <<>>
    /\ requests = <<>> /\ responses = <<>> /\ ret = None /\ exc = None /\ statsCalls = 0

\* the bodies a POST to /api/analyze may carry: none, or token, users and a start date
WebInputs ==
    {[kind |-> "json", data |-> None]} \cup
    {[kind |-> "json",
      data |-> Some([token |-> t, users |-> us, repository |-> "", start_date |-> d,
                     end_date |-> ""])] :
        t \in {"", " ", " ghp_a"},
        us \in {<<>>, <<" ">>, <<" alice ">>, <<"", "bob">>, <<"alice", " ">>},
        d \in {"", "2024-01-01", "01/02/2024"}}

\* the contents of config.yaml
ConfigInputs ==
    {[kind |-> "config", token |-> t, users |-> us, repository |-> None, start |-> d,
      end |-> None] :
        t \in {"", "ghp_a"},
        us \in {<<>>, <<" ">>, <<" alice ">>, <<"", "bob">>, <<"alice">>},
        d \in {None, Some(""), Some("2024-01-01"), Some("2024-1-5"), Some("01/02/2024")}}

\* a POST to /api/analyze, or a run of pr_stats.py
InitCallers ==
    /\ \/ /\ entry = "web" /\ pc = "web_request"
          /\ input \in WebInputs
          /\ cli = CliIdle
       \/ /\ entry = "cli" /\ pc = "idle"
          /\ input \in ConfigInputs
          /\ cli = CliAt("main")
    /\ client = None
    /\ CoreIdle

NextCallers ==
    \/ WebAnalyze
    \/ FetchMergedPrsCall
    \/ GetAllPagesCall
    \/ GetAllPagesStep
    \/ FetchDetail
    \/ FetchMergedPrsReturn
    \/ AnalyzeReturn
    \/ WebRespond
    \/ CliMain
    \/ CliFetchMergedPrsCall
    \/ CliGetAllPagesCall
    \/ CliGetAllPagesStep
    \/ CliFetchDetail
    \/ CliFetchMergedPrsReturn
    \/ CliMainEnd

SpecCallers == InitCallers /\ [][NextCallers]_vars

\* configurations that pass Config._validate, for the comparison of the two pipelines
BothInputs ==
    {[kind |-> "config", token |-> "ghp_a", users |-> us, repository |-> f[1], start |-> f[2],
      end |-> None] :
        us \in {<<"bob">>, <<"alice", "bob">>},
        f \in {<<None, None>>, <<Some("o/r1"), Some("")>>, <<Some("o/r1"), Some("2024-01-01")>>}}

\* PRAnalyzer(token).analyze(users, repository, start_date, end_date) and pr_stats.py
\* with a config.yaml of the same token, users and filters
InitBoth ==
    /\ input \in BothInputs
    /\ cli = CliIdle
    /\ client = NewGitHubClient(input.token)
    /\ entry = "both" /\ pc = "analyze_loop"
    /\ users = input.users
    /\ filters = [repository |-> input.repository, start_date |-> input.start,
                  end_date |-> input.end]
    /\ ui = 1
    /\ url = SearchUrl /\ params = None /\ page = 1 /\ response = None /\ results = <<>>
    /\ prs = <<>> /\ di = 1 /\ pr_data_list = <<>> /\ all_pr_data = <<>>
    /\ requests = <<>> /\ responses = <<>> /\ ret = None /\ exc = None /\ statsCalls = 0

NextBoth ==
    \/ FetchMergedPrsCall
    \/ GetAllPagesCall
    \/ GetAllPagesStep
    \/ FetchDetail
    \/ FetchMergedPrsReturn
    \/ AnalyzeReturn
    \/ RunPrStats
    \/ CliMain
    \/ CliFetchMergedPrsCall
    \/ CliGetAllPagesCall
    \/ CliGetAllPagesStep
    \/ CliFetchDetail
    \/ CliFetchMergedPrsReturn
    \/ CliMainEnd

SpecBoth == InitBoth /\ [][NextBoth]_vars

\* analyze(["alice", "bob"]) against the remote of the end-to-end scenario
InitScenario ==
    /\ input = NoInput /\ cli = CliIdle
    /\ client = NewGitHubClient("ghp_a")
    /\ entry = "analyze_scenario" /\ pc = "analyze_loop"
    /\ users = <<"alice", "bob">>
    /\ filters = NoFilters
    /\ ui = 1
    /\ url = SearchUrl /\ params = None /\ page = 1 /\ response = None /\ results = <<>>
    /\ prs = <<>> /\ di = 1 /\ pr_data_list = <<>> /\ all_pr_data = <<>>
    /\ requests = <<>> /\ responses = <<>> /\ ret = None /\ exc = None /\ statsCalls = 0

SpecScenario == InitScenario /\ [][Next]_vars

\* analyze of one user against a remote that serves full pages
InitLong ==
    /\ input = NoInput /\ cli = CliIdle
    /\ client = NewGitHubClient("ghp_a")
    /\ entry = "analyze_long" /\ pc = "analyze_loop"
    /\ users \in {<<u>> : u \in UserNames}
    /\ filters = NoFilters
    /\ ui = 1
    /\ url = SearchUrl /\ params = None /\ page = 1 /\ response = None /\ results = <<>>
    /\ prs = <<>> /\ di = 1 /\ pr_data_list = <<>> /\ all_pr_data = <<>>
    /\ requests = <<>> /\ responses = <<>> /\ ret = None /\ exc = None /\ statsCalls = 0

SpecLong == InitLong /\ [][Next]_vars

\* _get_all_pages(url, params) on its own
InitPages ==
    /\ input = NoInput /\ cli = CliIdle
    /\ client = NewGitHubClient("ghp_a")
    /\ entry = "_get_all_pages" /\ pc = "call_get_all_pages"
    /\ users = <<>> /\ filters = NoFilters /\ ui = 1
    /\ url = SearchUrl
    /\ params \in {None, Some(SearchParams("alice", NoFilters))}
    /\ page = 1 /\ response = None /\ results = <<>>
    /\ prs = <<>> /\ di = 1 /\ pr_data_list = <<>> /\ all_pr_data = <<>>
    /\ requests = <<>> /\ responses = <<>> /\ ret = None /\ exc = None /\ statsCalls = 0

NextPages == GetAllPagesCall \/ GetAllPagesStep

SpecPages == InitPages /\ [][NextPages]_vars

\* _get_all_pages(url, params) of pr_stats.py on its own
InitCliPages ==
    /\ input = NoInput
    /\ \E p \in {None, Some(SearchParams("alice", NoFilters))} :
          cli = [CliAt("call_get_all_pages") EXCEPT
                    !.client = Some(CliNewGitHubClient("ghp_a")),
                    !.url = <<"https://api.github.com", "/search/issues">>,
                    !.params = p]
    /\ client = None
    /\ entry = "cli_get_all_pages" /\ pc = "idle"
    /\ CoreIdle

\* a call of either _get_all_pages
InitPagers == InitPages \/ InitCliPages

NextPagers ==
    \/ GetAllPagesCall
    \/ GetAllPagesStep
    \/ CliGetAllPagesCall
    \/ CliGetAllPagesStep

SpecPagers == InitPagers /\ [][NextPagers]_vars

\* calculate_statistics(pr_data_list) on its own
InitStats ==
    /\ input = NoInput /\ cli = CliIdle
    /\ client = NewGitHubClient("ghp_a")
    /\ entry = "calculate_statistics" /\ pc = "call_calculate_statistics"
    /\ all_pr_data \in SeqsUpTo(StatRecords, MaxRecords)
    /\ users = <<>> /\ filters = NoFilters /\ ui = 1
    /\ url = SearchUrl /\ params = None /\ page = 1 /\ response = None /\ results = <<>>
    /\ prs = <<>> /\ di = 1 /\ pr_data_list = <<>>
    /\ requests = <<>> /\ responses = <<>> /\ ret = None /\ exc = None /\ statsCalls = 0

NextStats == CalculateStatisticsCall

SpecStats == InitStats /\ [][NextStats]_vars

----------------------------------------------------------------------------
(* Properties of the HTTP client *)

LastResponse == responses[Len(responses)]

UpperChar(c) ==
    CASE c = "r" -> "R" [] c = "a" -> "A" [] c = "t" -> "T" [] c = "e" -> "E"
      [] c = "l" -> "L" [] c = "i" -> "I" [] c = "m" -> "M"
      [] OTHER -> c

\* the text has 'rate limit' somewhere, each letter in either case
MentionsRateLimit(text) ==
    \E i \in 1..(Len(text) - 9) :
        \A k \in 1..10 :
            text[i + k - 1] \in {RateLimitPattern[k], UpperChar(RateLimitPattern[k])}

\* the error kind a caller reads off an exception: its class and the fixed part of its message
ErrorKind(e) ==
    IF e.class # "GitHubAPIError" THEN e.class
    ELSE CASE e.fmt = "Invalid GitHub token. Check your configuration." -> "AuthenticationError"
           [] e.fmt = "GitHub API rate limit exceeded. Try again later." -> "RateLimitError"
           [] e.fmt = "GitHub API forbidden: {}" -> "ForbiddenError"
           [] e.fmt = "GitHub API error ({}): {}" -> "APIError"
           [] e.fmt = "Network error: {}" -> "NetworkError"
           [] OTHER -> "unknown"

RaisedKind(kind) == pc = "raised" /\ exc # None /\ ErrorKind(exc[1]) = kind

\* the non-success statuses: 401, 403 by its body, every other status than 200
NonSuccessClassified(resp) ==
    /\ resp.status = 401 => RaisedKind("AuthenticationError")
    /\ resp.status = 403 /\ MentionsRateLimit(resp.text) => RaisedKind("RateLimitError")
    /\ resp.status = 403 /\ ~MentionsRateLimit(resp.text) =>
            RaisedKind("ForbiddenError") /\ exc[1].args = <<resp.text>>
    /\ resp.status \notin {200, 401, 403} =>
            RaisedKind("APIError") /\ exc[1].args = << <<resp.status>>, resp.text >>

\* the error in exc is the one the failed response stands for
SameError(resp) ==
    /\ pc = "raised" /\ exc # None
    /\ resp.kind = "transport" =>
          ErrorKind(exc[1]) = "NetworkError" /\ exc[1].args = <<resp.cause>>
    /\ resp.kind = "http" /\ resp.status # 200 => NonSuccessClassified(resp)
    /\ resp.kind = "http" /\ resp.status = 200 /\ resp.json = None =>
          ErrorKind(exc[1]) \in {"NetworkError", "ValueError"}
    /\ resp.kind = "http" /\ resp.status = 200 /\ resp.json # None =>
          ErrorKind(exc[1]) = "AttributeError"

\* C1 as stated: after every HTTP response, 401 has raised AuthenticationError, 403
\* RateLimitError or ForbiddenError (with the body) by whether the body mentions the
\* rate limit in any case, any other non-200 status APIError (with status and body),
\* and 200 has returned the decoded body without an error.
C1_Original ==
    responses # <<>> /\ LastResponse.kind = "http" =>
        /\ NonSuccessClassified(LastResponse)
        /\ LastResponse.status = 200 =>
                /\ pc # "raised" /\ exc = None
                /\ LastResponse.json # None /\ response = LastResponse.json

\* C1 amended: the same, the 200 clause being for a 200 whose body decodes as JSON
C1_Classification ==
    responses # <<>> /\ LastResponse.kind = "http" =>
        /\ NonSuccessClassified(LastResponse)
        /\ LastResponse.status = 200 /\ LastResponse.json # None =>
                pc # "raised" /\ exc = None /\ response = LastResponse.json

\* a 403 whose body spells the rate limit in mixed case was reported as RateLimitError
C1_Witness ==
    /\ responses # <<>>
    /\ LastResponse.status = 403
    /\ LastResponse.text = <<"R", "a", "t", "e", " ", "L", "i", "m", "i", "t", " ", "E", "x">>
    /\ RaisedKind("RateLimitError")

\* C15 as stated: a request that met a transport failure has raised NetworkError with
\* the cause, and a request that received an HTTP response has not raised NetworkError.
C15_Original ==
    responses # <<>> /\ pc = "raised" =>
        /\ LastResponse.kind = "transport" =>
                RaisedKind("NetworkError") /\ exc[1].args = <<LastResponse.cause>>
        /\ LastResponse.kind = "http" => ~RaisedKind("NetworkError")

----------------------------------------------------------------------------
(* Properties of the pagination *)

\* a 200 whose decoded body has a recognised shape: a page
IsPage(resp) ==
    /\ resp.kind = "http" /\ resp.status = 200 /\ resp.json # None
    /\ \/ resp.json[1].type = "list"
       \/ resp.json[1].type = "dict" /\ "items" \in DOMAIN resp.json[1].map

PageLen(resp) ==
    IF resp.json[1].type = "list" THEN Len(resp.json[1].items)
    ELSE Len(resp.json[1].map["items"])

\* the item count of each answer so far, -1 for an answer that is no page
PageLens == [i \in 1..Len(responses) |-> IF IsPage(responses[i]) THEN PageLen(responses[i]) ELSE -1]

PagesAtMost100 == \A i \in 1..Len(responses) : PageLens[i] <= 100

SentPage(i) == requests[i].params[1]["page"]

\* C2: when no page holds more than 100 items, a page of fewer than 100 items is the
\* last answer and _get_all_pages has returned right after it; pages of 100, 100, 40
\* items cost 3 requests and return 240 items, a first page of 0 items 1 request and
\* no item.
C2_StopsAtShortPage ==
    entry = "_get_all_pages" /\ PagesAtMost100 =>
        /\ \A i \in 1..Len(responses) :
              IsPage(responses[i]) /\ PageLens[i] < 100 =>
                  /\ i = Len(responses) /\ Len(requests) = i
                  /\ pc = "done" /\ ret = Some(results)
        /\ PageLens = <<100, 100, 40>> =>
              pc = "done" /\ Len(requests) = 3 /\ Len(ret[1]) = 240
        /\ PageLens = <<0>> =>
              pc = "done" /\ Len(requests) = 1 /\ ret = Some(<<>>)

C2_Witness ==
    /\ pc = "done" /\ PageLens = <<100, 100, 40>>
    /\ Len(requests) = 3 /\ Len(ret[1]) = 240

\* C3: a page of exactly 100 items is never the last one: the request after it asks
\* for the next page number, or the loop stands ready to send it; hence, pages
\* holding at most 100 items, a result of 100*k items (k >= 1) took k+1 requests.
C3_FullPageGoesOn ==
    entry = "_get_all_pages" =>
        /\ \A i \in 1..Len(responses) :
              IsPage(responses[i]) /\ PageLens[i] = 100 =>
                  IF i < Len(responses)
                  THEN SentPage(i + 1) = SentPage(i) + 1
                  ELSE pc = "get_all_pages" /\ page = SentPage(i) + 1
        /\ pc = "done" /\ PagesAtMost100 /\ Len(ret[1]) > 0 /\ Len(ret[1]) % 100 = 0 =>
              Len(requests) = (Len(ret[1]) \div 100) + 1

C3_Witness ==
    /\ pc = "done" /\ PageLens = <<100, 100, 0>>
    /\ Len(ret[1]) = 200 /\ Len(requests) = 3

\* the i-th page request failed: no response, a status other than 200, or a body that
\* does not decode
PageRequestFailed(i) ==
    \/ responses[i].kind = "transport"
    \/ responses[i].status # 200
    \/ responses[i].json = None

\* C12: a failed page request is the last request _get_all_pages makes; the call has
\* ended with the error of that request and has returned nothing, whatever the
\* earlier pages had accumulated.
C12_PagesAbortOnFailure ==
    entry = "_get_all_pages" =>
        \A i \in 1..Len(requests) :
            PageRequestFailed(i) =>
                /\ i = Len(requests)
                /\ SameError(responses[i])
                /\ ret = None

\* the second page failed after a first page of 100 items
C12_Witness ==
    /\ entry = "_get_all_pages" /\ pc = "raised"
    /\ Len(requests) = 2 /\ PageRequestFailed(2)
    /\ Len(results) = 100 /\ ret = None

\* the items an answer carries: those of a page, none for any other body
ItemsOf(resp) ==
    IF ~IsPage(resp) THEN <<>>
    ELSE IF resp.json[1].type = "list" THEN resp.json[1].items
    ELSE resp.json[1].map["items"]

\* the items of the first n answers, in order
RECURSIVE ItemsUpTo(_)
ItemsUpTo(n) == IF n = 0 THEN <<>> ELSE ItemsUpTo(n - 1) \o ItemsOf(responses[n])

\* C13: the result of _get_all_pages is the concatenation, in request order, of the
\* item lists of all the pages it received, each in the server's order.
C13_ResultIsConcatenation ==
    entry = "_get_all_pages" /\ pc = "done" => ret = Some(ItemsUpTo(Len(responses)))

\* a full page given as a bare list, then a short page of two different items
C13_Witness ==
    /\ entry = "_get_all_pages" /\ pc = "done"
    /\ Len(responses) = 2
    /\ responses[1].json[1].type = "list"
    /\ ItemsOf(responses[2]) = <<ItemB, ItemA>>
    /\ Len(ret[1]) = 102 /\ ret[1][101] = ItemB /\ ret[1][102] = ItemA

\* the i-th answer decoded to a body that is no page: null, a number, a mapping
\* without 'items'
OtherBody(i) ==
    /\ responses[i].kind = "http" /\ responses[i].status = 200 /\ responses[i].json # None
    /\ ~IsPage(responses[i])

\* C21: while _get_all_pages runs, and when it has returned, results holds the items
\* of the mappings with 'items' and of the sequences received so far; a body of any
\* other shape, and an empty body, is the last answer: the call has returned without
\* error what the pages before it contributed.
C21_BodyShapes ==
    entry = "_get_all_pages" =>
        /\ pc \in {"get_all_pages", "done"} => results = ItemsUpTo(Len(responses))
        /\ \A i \in 1..Len(responses) :
              \/ OtherBody(i)
              \/ IsPage(responses[i]) /\ PageLens[i] = 0
              => /\ i = Len(responses)
                 /\ pc = "done" /\ exc = None
                 /\ ret = Some(ItemsUpTo(i - 1))

\* a full page, then a mapping without 'items': the 100 items are returned
C21_Witness ==
    /\ entry = "_get_all_pages" /\ pc = "done"
    /\ Len(responses) = 2 /\ OtherBody(2)
    /\ responses[2].json[1].type = "dict"
    /\ Len(ret[1]) = 100 /\ exc = None

\* the query parameters of the i-th request other than the page number
FixedParams(i) ==
    [key \in DOMAIN requests[i].params[1] \ {"page"} |-> requests[i].params[1][key]]

\* C20: the k-th request of a _get_all_pages call carries page = k and per_page = 100,
\* and goes to the same URL with the same other parameters as the first.
C20_PageCounter ==
    entry = "_get_all_pages" =>
        \A k \in 1..Len(requests) :
            /\ requests[k].params # None
            /\ SentPage(k) = k
            /\ requests[k].params[1]["per_page"] = 100
            /\ requests[k].url = requests[1].url
            /\ FixedParams(k) = FixedParams(1)

\* three requests of a search, carrying q, sort and order
C20_Witness ==
    /\ entry = "_get_all_pages" /\ Len(requests) = 3
    /\ {"q", "sort", "order"} \subseteq DOMAIN requests[3].params[1]
    /\ SentPage(3) = 3 /\ FixedParams(3) = FixedParams(1)

\* an answer that is a page of 100 or more items: a 200 whose decoded body is a dict
\* with that many 'items', or a list that long
FullPage(resp) ==
    /\ resp.kind = "http" /\ resp.status = 200 /\ resp.json # None
    /\ LET body == resp.json[1] IN
       \/ body.type = "dict" /\ "items" \in DOMAIN body.map /\ Len(body.map["items"]) >= 100
       \/ body.type = "list" /\ Len(body.items) >= 100

\* a pager at position `at` with page counter `counter` after the requests `sent`:
\* its k-th request asked for page k; it is in its loop, about to ask for the next
\* page, exactly when every answer so far was a full page, and it has ended exactly
\* when the last answer was not one
PagerFollowsFullPages(at, counter, sent) ==
    /\ Len(sent) = Len(responses)
    /\ \A k \in 1..Len(sent) : sent[k].params[1]["page"] = k
    /\ at = "get_all_pages" =>
          /\ \A k \in 1..Len(responses) : FullPage(responses[k])
          /\ counter = Len(sent) + 1
    /\ at \in {"done", "raised"} =>
          /\ Len(responses) >= 1
          /\ ~FullPage(responses[Len(responses)])
          /\ \A k \in 1..(Len(responses) - 1) : FullPage(responses[k])

\* C29: _get_all_pages, of lib/ and of pr_stats.py, has no bound on the pages: it ends
\* exactly on the first answer that is a failure, a falsy or unrecognised body or a
\* page of fewer than 100 items, and while every answer is a page of 100 or more
\* items it goes on to request the next page (as far as the runs are followed).
C29_NoPageBound ==
    /\ entry = "_get_all_pages" =>
          /\ PagerFollowsFullPages(pc, page, requests)
          /\ (pc = "get_all_pages" /\ Len(requests) < RequestCap(entry)) =>
                ENABLED GetAllPagesStep
    /\ entry = "cli_get_all_pages" =>
          /\ PagerFollowsFullPages(cli.pc, cli.page, cli.requests)
          /\ (cli.pc = "get_all_pages" /\ Len(cli.requests) < RequestCap(entry)) =>
                ENABLED CliGetAllPagesStep

\* five full pages were answered and the loop is about to ask for page 6
C29_Witness ==
    /\ entry = "_get_all_pages" /\ pc = "get_all_pages"
    /\ Len(requests) = 5 /\ page = 6
    /\ Len(results) >= 500

----------------------------------------------------------------------------
(* Properties of calculate_statistics *)

\* the sum of f over the indices in I
RECURSIVE SumAt(_, _)
SumAt(f, I) ==
    IF I = {} THEN 0
    ELSE LET i == CHOOSE j \in I : TRUE IN f[i] + SumAt(f, I \ {i})

\* the positions of the records of one author
IndicesOf(records, user) == {i \in 1..Len(records) : records[i].author = user}

LinesOf(records) == [i \in 1..Len(records) |-> records[i].total_lines]

FirstIndexOf(records, user) ==
    CHOOSE i \in IndicesOf(records, user) : \A j \in IndicesOf(records, user) : i <= j

StatsReturned == entry = "calculate_statistics" /\ pc = "done"

\* C4: for a non-empty record list the rows' total_lines add up to the records'
\* total_lines, the rows' total_prs to the number of records, and each row counts and
\* sums exactly the records of its user.
C4_SumsPreserved ==
    StatsReturned /\ all_pr_data # <<>> =>
        LET summary == ret[1] IN
        /\ SumAt([k \in 1..Len(summary) |-> summary[k].total_lines], 1..Len(summary))
              = SumAt(LinesOf(all_pr_data), 1..Len(all_pr_data))
        /\ SumAt([k \in 1..Len(summary) |-> summary[k].total_prs], 1..Len(summary))
              = Len(all_pr_data)
        /\ \A k \in 1..Len(summary) :
              /\ summary[k].total_prs = Cardinality(IndicesOf(all_pr_data, summary[k].user))
              /\ summary[k].total_lines
                    = SumAt(LinesOf(all_pr_data), IndicesOf(all_pr_data, summary[k].user))

\* two authors with interleaved records, one of them with three
C4_Witness ==
    /\ StatsReturned
    /\ [i \in 1..Len(all_pr_data) |-> all_pr_data[i].author] = <<"bob", "alice", "bob", "bob">>
    /\ Len(ret[1]) = 2
    /\ ret[1][1].total_prs = 3

\* C5: the summary is in descending order of total_prs, and of two rows with equal
\* total_prs the one whose user has the earlier first record comes first.
C5_SortedStable ==
    StatsReturned =>
        LET summary == ret[1] IN
        \A i \in 1..Len(summary) : \A j \in 1..Len(summary) :
            i < j =>
                /\ summary[i].total_prs >= summary[j].total_prs
                /\ summary[i].total_prs = summary[j].total_prs =>
                      FirstIndexOf(all_pr_data, summary[i].user)
                          < FirstIndexOf(all_pr_data, summary[j].user)

\* carol, seen second, leads with two records; bob and alice tie and keep their order
C5_Witness ==
    /\ StatsReturned
    /\ [i \in 1..Len(all_pr_data) |-> all_pr_data[i].author] = <<"bob", "carol", "alice", "carol">>
    /\ [k \in 1..Len(ret[1]) |-> ret[1][k].user] = <<"carol", "bob", "alice">>

\* C6: every row's avg_lines_per_pr (in tenths) is a tenth nearest to
\* total_lines / total_prs: it is off by at most one twentieth.
C6_AverageRounded ==
    StatsReturned =>
        \A k \in 1..Len(ret[1]) :
            LET row == ret[1][k]
                off == 10 * row.total_lines - row.total_prs * row.avg_lines_per_pr
            IN  /\ row.total_prs > 0
                /\ 2 * off <= row.total_prs
                /\ -2 * off <= row.total_prs

\* 5 lines over 3 PRs: 1.666... is reported as 1.7
C6_Witness ==
    /\ StatsReturned
    /\ \E k \in 1..Len(ret[1]) :
          /\ ret[1][k].total_prs = 3
          /\ ret[1][k].total_lines = 5
          /\ ret[1][k].avg_lines_per_pr = 17

\* C25: the users of the summary rows are exactly the authors of the input records,
\* each in one row only; for no record there is no row.
C25_OneRowPerAuthor ==
    StatsReturned =>
        LET summary == ret[1]
            authors == {all_pr_data[i].author : i \in 1..Len(all_pr_data)}
        IN  /\ {summary[k].user : k \in 1..Len(summary)} = authors
            /\ \A k, l \in 1..Len(summary) : summary[k].user = summary[l].user => k = l
            /\ all_pr_data = <<>> => summary = <<>>

\* four records of three authors give three rows
C25_Witness ==
    /\ StatsReturned
    /\ [i \in 1..Len(all_pr_data) |-> all_pr_data[i].author] = <<"carol", "alice", "carol", "bob">>
    /\ [k \in 1..Len(ret[1]) |-> ret[1][k].user] = <<"carol", "alice", "bob">>

----------------------------------------------------------------------------
(* Properties of fetch_merged_prs and analyze *)

Range(f) == {f[i] : i \in DOMAIN f}

AnalyzeReturned == entry = "analyze" /\ pc = "done"

IsDetailRequest(i) == requests[i].params = None

\* C7: every record fetch_merged_prs has built, in the list under construction, in
\* the records gathered by analyze and in the result, has total_lines equal to its
\* additions plus its deletions.
C7_TotalLinesDerived ==
    /\ \A r \in Range(pr_data_list) \cup Range(all_pr_data) :
          r.total_lines = r.additions + r.deletions
    /\ AnalyzeReturned =>
          \A r \in Range(ret[1].prs) : r.total_lines = r.additions + r.deletions

\* a detail response without additions gave a record of 0 additions and 4 lines
C7_Witness ==
    /\ pc = "fetch_details" /\ pr_data_list # <<>>
    /\ IsDetailRequest(Len(requests))
    /\ "additions" \notin DOMAIN LastResponse.json[1].map
    /\ pr_data_list[Len(pr_data_list)].additions = 0
    /\ pr_data_list[Len(pr_data_list)].deletions = 4
    /\ pr_data_list[Len(pr_data_list)].total_lines = 4

\* C8: analyze returning with no record gathered, as it does for zero users and for
\* users whose searches all come back empty, returns the empty summary, no records
\* and a count of 0, and calculate_statistics has not been invoked.
C8_EmptyFastPath ==
    AnalyzeReturned =>
        /\ users = <<>> => all_pr_data = <<>> /\ requests = <<>>
        /\ (\A i \in 1..Len(requests) : ~IsDetailRequest(i)) => all_pr_data = <<>>
        /\ all_pr_data = <<>> =>
              /\ ret = Some([summary |-> <<>>, prs |-> <<>>, total_prs |-> 0])
              /\ statsCalls = 0

\* two users, two searches that found nothing
C8_Witness ==
    /\ AnalyzeReturned
    /\ Len(users) = 2 /\ Len(requests) = 2
    /\ ret[1].total_prs = 0 /\ statsCalls = 0

\* the i-th request failed: no response, a status other than 200, a body that does
\* not decode, or a detail body that is no mapping
RequestFailed(i) ==
    \/ responses[i].kind = "transport"
    \/ responses[i].status # 200
    \/ responses[i].json = None
    \/ IsDetailRequest(i) /\ responses[i].json[1].type # "dict"

\* C9: a failed request is the last request of the run, and analyze has ended with
\* its error: nothing is returned, calculate_statistics has not been invoked.
C9_FailFast ==
    entry = "analyze" =>
        \A i \in 1..Len(requests) :
            RequestFailed(i) =>
                /\ i = Len(requests)
                /\ SameError(responses[i])
                /\ ret = None
                /\ statsCalls = 0

\* the second user's search hit the rate limit after the first user's record was fetched
C9_Witness ==
    /\ entry = "analyze" /\ pc = "raised"
    /\ Len(users) = 2 /\ ui = 2 /\ all_pr_data # <<>>
    /\ RaisedKind("RateLimitError")
    /\ ret = None

\* C10: in every result of analyze total_prs is the number of records, and a result
\* without records has an empty summary and a total_prs of 0.
C10_ResultCounts ==
    AnalyzeReturned =>
        /\ ret[1].total_prs = Len(ret[1].prs)
        /\ ret[1].prs = <<>> => ret[1].summary = <<>> /\ ret[1].total_prs = 0

\* three records of two users
C10_Witness ==
    /\ AnalyzeReturned
    /\ Len(ret[1].prs) = 3 /\ ret[1].total_prs = 3
    /\ Len(ret[1].summary) = 2

\* the requests that open a search: page 1 of a _get_all_pages call
SearchStarts == {i \in 1..Len(requests) : ~IsDetailRequest(i) /\ SentPage(i) = 1}

LastSearchStart == CHOOSE i \in SearchStarts : \A j \in SearchStarts : j <= i

\* the items of the search pages among the requests a..n, in order
RECURSIVE SearchItemsFrom(_, _)
SearchItemsFrom(a, n) ==
    IF n < a THEN <<>>
    ELSE IF n = a THEN (IF IsDetailRequest(n) THEN <<>> ELSE ItemsOf(responses[n]))
    ELSE LET mid == (a + n) \div 2
         IN  SearchItemsFrom(a, mid) \o SearchItemsFrom(mid + 1, n)

\* fetch_merged_prs has just returned to analyze
FetchReturned == entry = "analyze" /\ pc = "analyze_loop" /\ ui > 1

\* C14: when fetch_merged_prs returns, its list has one record per item of the search,
\* in the order of the search, and one detail request was made per item; a search
\* without items returns the empty list, no error raised and no detail requested.
C14_OneRecordPerItem ==
    FetchReturned =>
        LET items == SearchItemsFrom(LastSearchStart, Len(requests))
            details == {i \in LastSearchStart..Len(requests) : IsDetailRequest(i)}
        IN  /\ prs = items
            /\ Len(pr_data_list) = Len(items)
            /\ \A i \in 1..Len(items) :
                  /\ pr_data_list[i].number = items[i].number
                  /\ pr_data_list[i].title = items[i].title
                  /\ pr_data_list[i].url = items[i].html_url
            /\ Cardinality(details) = Len(items)
            /\ exc = None
            /\ items = <<>> => pr_data_list = <<>> /\ details = {}

\* a search of two different items returned their two records
C14_Witness ==
    /\ FetchReturned
    /\ prs = <<ItemB, ItemA>>
    /\ Len(pr_data_list) = 2
    /\ pr_data_list[1].number = ItemB.number /\ pr_data_list[2].number = ItemA.number

\* the user a search request names: the token after 'author:' in q
AuthorOf(i) == requests[i].params[1]["q"][2]

\* the user a request is made for: the author of the latest search request up to it
RECURSIVE OwnerOf(_)
OwnerOf(i) == IF IsDetailRequest(i) THEN OwnerOf(i - 1) ELSE AuthorOf(i)

\* the detail requests that were answered with a mapping, in request order
RECURSIVE RecordedRequests(_)
RecordedRequests(n) ==
    IF n = 0 THEN <<>>
    ELSE RecordedRequests(n - 1) \o (IF IsDetailRequest(n) /\ ~RequestFailed(n) THEN <<n>> ELSE <<>>)

\* the k-th smallest element of a set of numbers
RECURSIVE KthOf(_, _)
KthOf(S, k) ==
    LET least == CHOOSE x \in S : \A y \in S : x <= y
    IN  IF k = 1 THEN least ELSE KthOf(S \ {least}, k - 1)

\* C17: the k-th search opened is the one of the k-th user, later pages of a search
\* name the same user, and the records analyze returns are those of the answered
\* detail requests in request order, each with the user whose search preceded it:
\* the users' record lists, concatenated in input order.
C17_UsersInOrder ==
    entry = "analyze" =>
        /\ Cardinality(SearchStarts) <= Len(users)
        /\ \A k \in 1..Cardinality(SearchStarts) : AuthorOf(KthOf(SearchStarts, k)) = users[k]
        /\ \A i \in 2..Len(requests) :
              ~IsDetailRequest(i) /\ i \notin SearchStarts =>
                  ~IsDetailRequest(i - 1) /\ AuthorOf(i) = AuthorOf(i - 1)
        /\ pc = "done" =>
              LET made == RecordedRequests(Len(requests)) IN
              /\ Len(ret[1].prs) = Len(made)
              /\ \A i \in 1..Len(made) :
                    /\ ret[1].prs[i].author = OwnerOf(made[i])
                    /\ requests[made[i]].url[Len(requests[made[i]].url)] = ret[1].prs[i].number

\* alice's record comes before bob's
C17_Witness ==
    /\ AnalyzeReturned
    /\ users = <<"alice", "bob">>
    /\ Len(requests) = 4 /\ IsDetailRequest(2) /\ IsDetailRequest(4)
    /\ Len(ret[1].prs) = 2
    /\ ret[1].prs[1].author = "alice" /\ ret[1].prs[2].author = "bob"

\* C18: once a request has failed no request is issued any more in the run, neither
\* the same one again nor any other.
C18_NoRetry ==
    [][entry = "analyze" /\ (\E i \in 1..Len(requests) : RequestFailed(i))
            => requests' = requests]_vars

\* the detail request of the second user's PR failed, four requests in all
C18_Witness ==
    /\ entry = "analyze" /\ pc = "raised"
    /\ Len(requests) = 4 /\ IsDetailRequest(4) /\ RequestFailed(4)
    /\ \A i \in 1..3 : ~RequestFailed(i)
    /\ ui = 2

\* the fetch of the one user of a long run has returned
LongFetchReturned == entry = "analyze_long" /\ pc \in {"analyze_loop", "done"} /\ ui > 1

\* the URL of the pull request a summary item names
DetailUrlOf(item) ==
    <<"https://api.github.com", "/repos/", item.repository_url[Len(item.repository_url)],
      "/pulls/", item.number>>

\* C19: a fetch whose search took P page requests and found N items has made P + N
\* requests: the P page requests first, then for j = 1..N the detail request of the
\* j-th item, equal items being requested as often as they occur.
C19_RequestCount ==
    LongFetchReturned =>
        LET P == Cardinality({i \in 1..Len(requests) : ~IsDetailRequest(i)})
            items == SearchItemsFrom(1, Len(requests))
            N == Len(items)
        IN  /\ Len(requests) = P + N
            /\ \A i \in 1..P : ~IsDetailRequest(i) /\ SentPage(i) = i
            /\ \A j \in 1..N :
                  /\ IsDetailRequest(P + j)
                  /\ requests[P + j].url = DetailUrlOf(items[j])
            /\ Len(pr_data_list) = N

\* two page requests, then 100 detail requests for 100 items of which only two differ
C19_Witness ==
    /\ LongFetchReturned
    /\ Len(requests) = 102
    /\ ~IsDetailRequest(2) /\ IsDetailRequest(3) /\ IsDetailRequest(102)
    /\ Len(prs) = 100 /\ prs[1] = prs[3] /\ Cardinality(Range(prs)) = 2
    /\ requests[3].url = requests[5].url

\* a filter is given: it is there and not the empty string
Given(opt) == opt # None /\ opt # Some("")

\* the search expression of a user under the filters, token by token
ExpectedQuery(user, f) ==
    <<"author:", user, " ", "is:pr", " ", "is:merged">>
        \o (IF Given(f.repository) THEN <<" ", "repo:", f.repository[1]>> ELSE <<>>)
        \o (IF Given(f.start_date) THEN <<" ", "merged:>=", f.start_date[1]>> ELSE <<>>)
        \o (IF Given(f.end_date) THEN <<" ", "merged:<=", f.end_date[1]>> ELSE <<>>)

\* C16: the q of every search request is 'author:<user> is:pr is:merged', followed by
\* ' repo:<repository>', ' merged:>=<start_date>' and ' merged:<=<end_date>' in this
\* order, each only if that filter is given: no clause without a value, no space at
\* the end and no two spaces in a row.
C16_QueryClauses ==
    entry = "analyze_filters" =>
        \A i \in 1..Len(requests) :
            ~IsDetailRequest(i) =>
                LET q == requests[i].params[1]["q"] IN
                /\ q = ExpectedQuery(users[1], filters)
                /\ q[Len(q)] \notin {" ", "", "repo:", "merged:>=", "merged:<="}
                /\ \A k \in 1..(Len(q) - 1) : ~(q[k] = " " /\ q[k + 1] = " ")
                /\ filters = NoFilters =>
                      q = <<"author:", users[1], " ", "is:pr", " ", "is:merged">>

\* a search with a start date only
C16_Witness ==
    /\ entry = "analyze_filters" /\ requests # <<>>
    /\ filters = [repository |-> None, start_date |-> Some("2024-01-01"), end_date |-> None]
    /\ requests[1].params[1]["q"] =
          <<"author:", users[1], " ", "is:pr", " ", "is:merged", " ", "merged:>=", "2024-01-01">>

\* the decoded detail answer the j-th record of the running fetch was built from:
\* the searches of SpecRecords take one page, the details follow it one per record
DetailOf(j) == responses[Len(requests) - Len(pr_data_list) + j].json[1].map

HasTimestamp(d) == "merged_at" \in DOMAIN d /\ d["merged_at"] # Null

\* C22 as stated: every record takes number, title and url from its summary item,
\* additions and deletions from its own detail answer, author from the user searched
\* for, and merged_at from the detail answer, '' when that gives no merge timestamp.
C22_Original ==
    entry = "analyze_records" /\ pc = "fetch_details" =>
        \A j \in 1..Len(pr_data_list) :
            LET r == pr_data_list[j]
                d == DetailOf(j)
            IN  /\ r.number = prs[j].number /\ r.title = prs[j].title /\ r.url = prs[j].html_url
                /\ "additions" \in DOMAIN d => r.additions = d["additions"]
                /\ "deletions" \in DOMAIN d => r.deletions = d["deletions"]
                /\ r.author = users[ui]
                /\ r.merged_at = IF HasTimestamp(d) THEN d["merged_at"] ELSE ""

\* the two headers of a client constructed with the token
HeadersOf(token) ==
    [h \in {"Authorization", "Accept"} |->
        IF h = "Authorization" THEN <<"token ", token>> ELSE "application/vnd.github.v3+json"]

\* C23: every request issued, a search page or a detail, carries 'Authorization: token
\* <the credential of the client>' and the fixed Accept header, and no step, a failed
\* request included, changes the client's credential, headers or base URL.
C23_HeadersAndClientFixed ==
    /\ [](entry = "analyze_records" =>
            /\ client.token \in Tokens
            /\ client.base_url = "https://api.github.com"
            /\ \A i \in 1..Len(requests) : requests[i].headers = HeadersOf(client.token))
    /\ [][client' = client]_vars

\* a search and a detail request under the second credential, the detail refused
C23_Witness ==
    /\ entry = "analyze_records" /\ pc = "raised"
    /\ client.token = "ghp_b"
    /\ Len(requests) = 2 /\ IsDetailRequest(2) /\ RequestFailed(2)
    /\ requests[1].headers["Authorization"] = <<"token ", "ghp_b">>
    /\ requests[2].headers = requests[1].headers

\* the detail requests made for a user: those that follow a search naming the user
DetailsFor(user) == {i \in 1..Len(requests) : IsDetailRequest(i) /\ OwnerOf(i) = user}

\* additions + deletions of the i-th answer, a detail; 0 for a number it does not give
DetailLines == [i \in 1..Len(requests) |->
    IF IsDetailRequest(i)
    THEN Get(responses[i].json[1].map, "additions", 0) + Get(responses[i].json[1].map, "deletions", 0)
    ELSE 0]

\* C24: analyze returns one record per detail request made, whichever user and PR it
\* was for: total_prs is their number, and each row of the summary counts the detail
\* requests made for its user, over all the times the user is listed, and sums their
\* lines, equal PRs included.
C24_NoDeduplication ==
    AnalyzeReturned =>
        LET details == {i \in 1..Len(requests) : IsDetailRequest(i)} IN
        /\ Len(ret[1].prs) = Cardinality(details)
        /\ ret[1].total_prs = Cardinality(details)
        /\ \A k \in 1..Len(ret[1].summary) :
              LET row == ret[1].summary[k] IN
              /\ row.total_prs = Cardinality(DetailsFor(row.user))
              /\ row.total_lines = SumAt(DetailLines, DetailsFor(row.user))

\* alice listed twice, the same PR with the same details found both times
C24_Witness ==
    /\ AnalyzeReturned
    /\ users = <<"alice", "alice">>
    /\ Len(ret[1].prs) = 2 /\ ret[1].prs[1] = ret[1].prs[2]
    /\ ret[1].total_prs = 2
    /\ Len(ret[1].summary) = 1 /\ ret[1].summary[1].total_prs = 2
    /\ ret[1].summary[1].total_lines = 2 * ret[1].prs[1].total_lines

\* C30: every row of a summary analyze returns is for one of the users asked for and
\* counts at least one PR; its average is its lines over that count, to the nearest
\* tenth.
C30_RowsOfMatchedUsers ==
    AnalyzeReturned =>
        \A k \in 1..Len(ret[1].summary) :
            LET row == ret[1].summary[k] IN
            /\ row.user \in Range(users)
            /\ row.total_prs >= 1
            /\ 2 * row.total_prs * row.avg_lines_per_pr - 20 * row.total_lines <= row.total_prs
            /\ 20 * row.total_lines - 2 * row.total_prs * row.avg_lines_per_pr <= row.total_prs

\* bob's search matched nothing: the summary has alice's row only
C30_Witness ==
    /\ AnalyzeReturned
    /\ users = <<"alice", "bob">>
    /\ Len(requests) = 3 /\ IsDetailRequest(2) /\ ~IsDetailRequest(3)
    /\ Len(ret[1].summary) = 1 /\ ret[1].summary[1].user = "alice"
    /\ ret[1].summary[1].total_prs = 1

----------------------------------------------------------------------------
(* Properties of the callers: app.py and pr_stats.py *)

\* a username that is not empty and has no white space at either end
TrimmedName(name) == name \notin {"", " ", " alice ", "alice ", " alice", " bob", "bob "}

\* the user the i-th request of pr_stats.py searches for
CliAuthorOf(i) == cli.requests[i].params[1]["q"][2]

\* the usernames fetch_merged_prs was called with, as the searches sent show them
WebNamesTrimmed ==
    \A i \in 1..Len(requests) : ~IsDetailRequest(i) => TrimmedName(AuthorOf(i))

CliNamesTrimmed ==
    \A i \in 1..Len(cli.requests) :
        cli.requests[i].params # None => TrimmedName(CliAuthorOf(i))

\* C26 as stated: every username fetch_merged_prs is called with, by the web endpoint
\* and by main of pr_stats.py, is non-empty and trimmed.
C26_Original ==
    /\ entry = "web" => WebNamesTrimmed
    /\ entry = "cli" => CliNamesTrimmed

\* a date in the format YYYY-MM-DD
IsIsoDate(text) == text \in {"2024-01-01", "2024-12-31"}

\* the POST fails one of the checks: token, user list, dates
WebInputInvalid ==
    \/ input.data = None
    \/ input.data[1].token = ""
    \/ input.data[1].users = <<>>
    \/ input.data[1].start_date # "" /\ ~IsIsoDate(input.data[1].start_date)
    \/ input.data[1].end_date # "" /\ ~IsIsoDate(input.data[1].end_date)

\* the config.yaml fails one of the checks
ConfigInvalid ==
    \/ input.token = ""
    \/ input.users = <<>>
    \/ input.start \notin {None, Some("")} /\ ~IsIsoDate(input.start[1])
    \/ input.end \notin {None, Some("")} /\ ~IsIsoDate(input.end[1])

WebRejectsInvalid ==
    WebInputInvalid =>
        /\ requests = <<>>
        /\ pc \in {"web_request", "responded"}
        /\ pc = "responded" => ret[1].status = 400

CliRejectsInvalid ==
    ConfigInvalid =>
        /\ cli.requests = <<>>
        /\ cli.pc \in {"main", "raised"}
        /\ cli.pc = "raised" => cli.exc[1].class = "ConfigError"

\* C27 as stated: an input with an empty token, an empty user list or a date that is
\* not YYYY-MM-DD is rejected by the web endpoint and by pr_stats.py, and no request
\* has been issued for it.
C27_Original ==
    /\ entry = "web" => WebRejectsInvalid
    /\ entry = "cli" => CliRejectsInvalid

\* the requests pr_stats.py has issued are the first requests analyze issued
CliRequestsFollow ==
    /\ Len(cli.requests) <= Len(requests)
    /\ \A k \in 1..Len(cli.requests) : cli.requests[k] = requests[k]

\* pr_stats.py ended as analyze did: the records, the count printed, and the summary,
\* total and records displayed (nothing is displayed for no record, where analyze
\* returns the empty result), or the exception
CliEndedAsAnalyze ==
    /\ Len(cli.requests) = Len(requests)
    /\ cli.pc = "done" =>
          /\ pc = "done"
          /\ AsDicts(cli.all_pr_data) = ret[1].prs
          /\ cli.fetched = Some(ret[1].total_prs)
          /\ IF cli.output = None
             THEN ret[1] = [summary |-> <<>>, prs |-> <<>>, total_prs |-> 0]
             ELSE cli.output[1] = ret[1]
    /\ cli.pc = "raised" =>
          /\ pc = "raised"
          /\ cli.exc = exc

\* C28: given the same token, users and filters and the same sequence of remote
\* answers, pr_stats.py issues the requests analyze issues, in the same order, and
\* ends with the same records, the same ordered summary and the same total, or with
\* the same exception
C28_PipelinesEquivalent ==
    (entry = "both" /\ cli.pc # "idle") =>
        /\ CliRequestsFollow
        /\ cli.pc \in {"done", "raised"} => CliEndedAsAnalyze

\* both have gone through two users with merged PRs and display a two-row summary
C28_Witness ==
    /\ entry = "both" /\ cli.pc = "done" /\ pc = "done"
    /\ Len(requests) >= 4
    /\ cli.output # None
    /\ Len(cli.output[1].summary) = 2

----------------------------------------------------------------------------
(* The end-to-end scenario *)

\* (additions, deletions) of the i-th answer, a detail
DetailPair(i) ==
    <<responses[i].json[1].map["additions"], responses[i].json[1].map["deletions"]>>

\* alice's search found two PRs of (10, 5) and (3, 2), bob's one PR of (100, 0)
ScenarioPlayed ==
    /\ entry = "analyze_scenario" /\ pc = "done"
    /\ users = <<"alice", "bob">>
    /\ Len(requests) = 5
    /\ ~IsDetailRequest(1) /\ IsDetailRequest(2) /\ IsDetailRequest(3)
    /\ ~IsDetailRequest(4) /\ IsDetailRequest(5)
    /\ DetailPair(2) = <<10, 5>> /\ DetailPair(3) = <<3, 2>> /\ DetailPair(5) = <<100, 0>>

\* C11: in that scenario the summary is alice with 2 PRs, 20 lines and an average of
\* 10.0, then bob with 1 PR, 100 lines and an average of 100.0, and total_prs is 3.
C11_EndToEnd ==
    ScenarioPlayed =>
        /\ ret[1].summary =
              << [user |-> "alice", total_prs |-> 2, avg_lines_per_pr |-> 100, total_lines |-> 20],
                 [user |-> "bob", total_prs |-> 1, avg_lines_per_pr |-> 1000, total_lines |-> 100] >>
        /\ ret[1].total_prs = 3

C11_Witness == ScenarioPlayed /\ Len(ret[1].prs) = 3 /\ statsCalls = 1

====
